---- MODULE Spec2Model ----
(***************************************************************************)
(* Verification model of the cryptocloud-sdk client library:               *)
(*   - the retry executor CryptocloudClient.withRetry                      *)
(*     (src/src/client/CryptocloudClient.ts),                              *)
(*   - the webhook signature verifier computeHmac / verifySignature        *)
(*     (src/src/client/CryptocloudSignature.ts).                           *)
(***************************************************************************)
EXTENDS Integers, Sequences, FiniteSets, TLC

VARIABLES
    retryOptions,   \* the RetryOptions argument of withRetry (fields optional)
    hasLogger,      \* whether the client was constructed with a logger
    pc,             \* position of the withRetry invocation
    attempt,        \* the loop variable `attempt`
    lastError,      \* the local `lastError`
    execCount,      \* number of times operation() has been called
    history,        \* outcome of every finished operation() call, in order
    delays,         \* the ms argument of every this.delay(ms) call, in order
    warnCalls,      \* number of logger.warn calls made by withRetry
    outcome,        \* what withRetry returned or threw
    sigSecret,      \* verifySignature argument `secret`
    sigBody,        \* verifySignature argument `body`
    sigProvided,    \* verifySignature argument `providedSignature`
    sigPc,          \* position of the verification scenario
    sigResult,      \* value returned by verifySignature
    sigRaised,      \* whether verifySignature raised instead of returning
    hmacCalls,      \* number of computeHmac calls made by verifySignature
    handlers,       \* WebhookService.handlers: event -> registered handlers
    handlerCalls,   \* every WebhookHandler method call made, in order
    processed,      \* number of processWebhook calls made
    whRun,          \* the last processWebhook call: argument, position, handler
                    \* calls not yet settled, handler errors caught
    apiMethod,      \* the CryptocloudClient API method that was called
    apiArg,         \* the kind of argument it was called with
    requests,       \* every HTTP request the client has sent, in order
    remoteDone,     \* whether the gateway has acted on the request in flight
    remoteInvoices, \* number of invoices the gateway has created
    responseBody,   \* the body (data) of the response the operation has received
    cachedPc,       \* where the body of a cached variant is around that call
    calls,          \* the withRetry invocations running concurrently
    overtaken,      \* per invocation: those invoked since its delay began
    now,            \* Date.now()
    cache,          \* MemoryCache.cache: key -> { value, expires }
    memLast,        \* the last MemoryCache operation: arguments, result, map before
    memSets,        \* per key set and not deleted or cleared since: time, ttl
                    \* and value of the set that wrote the entry
    cMethod,        \* the cached method the getters call
    getters,        \* the calls of that method: position and locals
    apiLog,         \* the calls of the client method made on a cache miss
    cacheMon,       \* what has happened to the entry: last store, invalidations
    invoices,       \* MockCryptocloudClient.invoices: id -> Invoice object
    heap,           \* the Invoice objects: reference -> fields
    nextInvoiceId,  \* MockCryptocloudClient.nextInvoiceId
    mockLast        \* the last MockCryptocloudClient operation and its result

retryVars == <<retryOptions, hasLogger, pc, attempt, lastError, execCount,
               history, delays, warnCalls, outcome>>
sigVars == <<sigSecret, sigBody, sigProvided, sigPc, sigResult, sigRaised, hmacCalls>>
whVars == <<handlers, handlerCalls, processed, whRun>>
apiVars == <<apiMethod, apiArg, requests, remoteDone, remoteInvoices, responseBody,
             cachedPc>>
concVars == <<calls, overtaken>>
memVars == <<now, cache, memLast, memSets>>
cachedVars == <<cMethod, getters, apiLog, cacheMon>>
mockVars == <<invoices, heap, nextInvoiceId, mockLast>>
otherVars == <<memVars, cachedVars, mockVars>>
vars == <<retryOptions, hasLogger, pc, attempt, lastError, execCount,
          history, delays, warnCalls, outcome,
          sigSecret, sigBody, sigProvided, sigPc, sigResult, sigRaised, hmacCalls,
          handlers, handlerCalls, processed, whRun,
          apiMethod, apiArg, requests, remoteDone, remoteInvoices, responseBody,
          cachedPc,
          calls, overtaken,
          now, cache, memLast, memSets, cMethod, getters, apiLog, cacheMon,
          invoices, heap, nextInvoiceId, mockLast>>

(***************************************************************************)
(* Bounds of the model.                                                    *)
(***************************************************************************)
\* largest maxRetries a caller passes explicitly
MaxRetriesArg == 2
\* largest delayMs a caller passes explicitly
MaxDelayArg == 2
\* largest backoffMultiplier a caller passes explicitly
MaxMultiplierArg == 3

(***************************************************************************)
(* Retry policy.                                                           *)
(***************************************************************************)
DEFAULT_RETRY_OPTIONS ==
    [maxRetries |-> 3, delayMs |-> 1000, backoffMultiplier |-> 2]

RetryFields == {"maxRetries", "delayMs", "backoffMultiplier"}

\* values a caller may give to one field of RetryOptions
RetryFieldValues(k) ==
    CASE k = "maxRetries" -> 0..MaxRetriesArg
      [] k = "delayMs" -> 1..MaxDelayArg
      [] k = "backoffMultiplier" -> 1..MaxMultiplierArg

\* every RetryOptions object: each field present or left out
RetryOptionsInputs ==
    { [k \in D |-> f[k]] :
        f \in [maxRetries : RetryFieldValues("maxRetries"),
               delayMs : RetryFieldValues("delayMs"),
               backoffMultiplier : RetryFieldValues("backoffMultiplier")],
        D \in SUBSET RetryFields }

\* { ...DEFAULT_RETRY_OPTIONS, ...retryOptions }
MergeOptions(ro) ==
    [k \in RetryFields |->
        IF k \in DOMAIN ro THEN ro[k] ELSE DEFAULT_RETRY_OPTIONS[k]]

options == MergeOptions(retryOptions)

RECURSIVE Pow(_, _)
\* Math.pow(b, e) for a non-negative integer exponent
Pow(b, e) == IF e = 0 THEN 1 ELSE b * Pow(b, e - 1)

\* a backoff whose exponent is the one-based attempt number
BackoffDelay_OneBased(opts, i) == opts.delayMs * Pow(opts.backoffMultiplier, i + 1)

\* a backoff that never grows
BackoffDelay_Constant(opts, i) == opts.delayMs

\* options.delayMs * Math.pow(options.backoffMultiplier, attempt)
BackoffDelay(opts, i) == opts.delayMs * Pow(opts.backoffMultiplier, i)

(***************************************************************************)
(* Errors.  statusCode is an HTTP status, or Undefined when the error      *)
(* carries none.  seq is the identity of the error object: the number of   *)
(* the operation() call that raised it.                                    *)
(***************************************************************************)
Undefined == -1

NoError ==
    [cls |-> "none", message |-> "", code |-> "", statusCode |-> Undefined, seq |-> 0]

\* new CryptocloudError(message, code, statusCode, response)
CryptocloudError(message, code, statusCode, n) ==
    [cls |-> "CryptocloudError", message |-> message, code |-> code,
     statusCode |-> statusCode, seq |-> n]

\* `HTTP_${statusCode}`
HttpCode(s) ==
    CASE s = 400 -> "HTTP_400"
      [] s = 401 -> "HTTP_401"
      [] s = 403 -> "HTTP_403"
      [] s = 404 -> "HTTP_404"
      [] s = 500 -> "HTTP_500"
      [] OTHER -> "HTTP_other"

\* response body without message, error and code ("" stands for a missing field)
NoData == [message |-> "", error |-> "", code |-> ""]

\* what axios rejects with when the request in flight is cancelled
\* (CanceledError): no response, message "canceled"
CanceledAxiosError ==
    [hasResponse |-> FALSE, status |-> Undefined, data |-> NoData,
     message |-> "canceled"]

\* failures of one transport call as axios reports them: a response with a
\* non-2xx status, or no response at all (network error, timeout)
AxiosErrors ==
    { [hasResponse |-> TRUE, status |-> s, data |-> NoData,
       message |-> "Request failed"] : s \in {400, 401, 403, 404, 500} }
    \cup { [hasResponse |-> TRUE, status |-> 400,
            data |-> [message |-> "bad amount", error |-> "", code |-> "VALIDATION"],
            message |-> "Request failed"] }
    \cup { [hasResponse |-> FALSE, status |-> Undefined, data |-> NoData,
            message |-> "timeout of 10000ms exceeded"] }
    \cup { CanceledAxiosError }

\* handleAxiosError, called by the response interceptor on every failure
handleAxiosError(e, n) ==
    LET statusCode == IF e.hasResponse THEN e.status ELSE Undefined
        responseData == IF e.hasResponse THEN e.data ELSE NoData
        message == IF responseData.message # "" THEN responseData.message
                   ELSE IF responseData.error # "" THEN responseData.error
                   ELSE IF e.message # "" THEN e.message
                   ELSE "Unknown error occurred"
        code == IF responseData.code # "" THEN responseData.code
                ELSE IF statusCode # Undefined /\ statusCode # 0 THEN HttpCode(statusCode)
                ELSE "UNKNOWN_ERROR"
    IN  CryptocloudError(message, code, statusCode, n)

\* an error that is not an instance of CryptocloudError, whatever it carries
ForeignError(statusCode, n) ==
    [cls |-> "Error", message |-> "foreign", code |-> "",
     statusCode |-> statusCode, seq |-> n]

\* everything the n-th operation() call can raise
OperationErrors(n) ==
    { handleAxiosError(e, n) : e \in AxiosErrors }
    \cup { ForeignError(401, n) }

\* everything the n-th operation() call can resolve to
OperationResults(n) == { [value |-> v, seq |-> n] : v \in {"r1", "r2"} }

\* a test that forgets status 403
IsNonRetryable_No403(e) ==
    /\ e.cls = "CryptocloudError"
    /\ (e.statusCode = 400 \/ e.statusCode = 401)

\* a test that treats every 4xx status as a client fault
IsNonRetryable_Any4xx(e) ==
    /\ e.cls = "CryptocloudError"
    /\ e.statusCode >= 400 /\ e.statusCode < 500

\* the test of the catch block: error instanceof CryptocloudError &&
\* (statusCode === 400 || statusCode === 401 || statusCode === 403)
IsNonRetryable(e) ==
    /\ e.cls = "CryptocloudError"
    /\ (e.statusCode = 400 \/ e.statusCode = 401 \/ e.statusCode = 403)

(***************************************************************************)
(* withRetry, one invocation.                                              *)
(*   pc = "loop"     at the loop test `attempt <= options.maxRetries`      *)
(*   pc = "inflight" awaiting operation()                                  *)
(*   pc = "delay"    awaiting this.delay(delay)                            *)
(*   pc = "returned" / "thrown"  the invocation is over                    *)
(***************************************************************************)
NoOutcome == [kind |-> "none"]

RetryInit ==
    /\ retryOptions \in RetryOptionsInputs
    /\ hasLogger \in BOOLEAN
    /\ pc = "loop"
    /\ attempt = 0
    /\ lastError = NoError
    /\ execCount = 0
    /\ history = <<>>
    /\ delays = <<>>
    /\ warnCalls = 0
    /\ outcome = NoOutcome

\* a loop test that admits one attempt fewer
LoopTest_Strict(a, opts) == a < opts.maxRetries

\* a loop test that admits one attempt more
LoopTest_OneMore(a, opts) == a <= opts.maxRetries + 1

\* the loop test: attempt <= options.maxRetries
LoopTest(a, opts) == a <= opts.maxRetries

\* the loop test holds: operation() is called and awaited
StartAttempt ==
    /\ pc = "loop"
    /\ LoopTest(attempt, options)
    /\ execCount' = execCount + 1
    /\ pc' = "inflight"
    /\ UNCHANGED <<retryOptions, hasLogger, attempt, lastError, history,
                   delays, warnCalls, outcome>>

\* an exit that throws a new error in place of the last one
ExitLoop_WrapsError ==
    /\ pc = "loop"
    /\ ~LoopTest(attempt, options)
    /\ outcome' = [kind |-> "thrown",
                   error |-> CryptocloudError("Max retries exceeded", "MAX_RETRIES",
                                              Undefined, 0)]
    /\ pc' = "thrown"
    /\ UNCHANGED <<retryOptions, hasLogger, attempt, lastError, execCount,
                   history, delays, warnCalls>>

\* the loop test fails: throw lastError
ExitLoop ==
    /\ pc = "loop"
    /\ ~LoopTest(attempt, options)
    /\ outcome' = [kind |-> "thrown", error |-> lastError]
    /\ pc' = "thrown"
    /\ UNCHANGED <<retryOptions, hasLogger, attempt, lastError, execCount,
                   history, delays, warnCalls>>

\* a success that is recorded while the loop goes on
OperationSucceeds_KeepsLooping ==
    /\ pc = "inflight"
    /\ \E r \in OperationResults(execCount) :
        /\ history' = Append(history, [ok |-> TRUE, result |-> r])
        /\ outcome' = [kind |-> "returned", result |-> r]
    /\ attempt' = attempt + 1
    /\ pc' = "loop"
    /\ UNCHANGED <<retryOptions, hasLogger, lastError, execCount,
                   delays, warnCalls>>

\* operation() resolves: return await operation()
OperationSucceeds ==
    /\ pc = "inflight"
    /\ \E r \in OperationResults(execCount) :
        /\ history' = Append(history, [ok |-> TRUE, result |-> r])
        /\ outcome' = [kind |-> "returned", result |-> r]
    /\ pc' = "returned"
    /\ UNCHANGED <<retryOptions, hasLogger, attempt, lastError, execCount,
                   delays, warnCalls>>

\* a catch block that rethrows every error at once
CatchError_NoRetry(e) ==
    /\ history' = Append(history, [ok |-> FALSE, error |-> e])
    /\ lastError' = e
    /\ outcome' = [kind |-> "thrown", error |-> e]
    /\ pc' = "thrown"
    /\ UNCHANGED <<attempt, delays, warnCalls>>

\* a catch block that waits after the last attempt as well
CatchError_DelaysAfterLast(e) ==
    /\ history' = Append(history, [ok |-> FALSE, error |-> e])
    /\ lastError' = e
    /\ IF IsNonRetryable(e)
       THEN /\ outcome' = [kind |-> "thrown", error |-> e]
            /\ pc' = "thrown"
            /\ UNCHANGED <<attempt, delays, warnCalls>>
       ELSE /\ delays' = Append(delays, BackoffDelay(options, attempt))
            /\ warnCalls' = IF hasLogger THEN warnCalls + 1 ELSE warnCalls
            /\ pc' = "delay"
            /\ UNCHANGED <<attempt, outcome>>

\* the catch block, for the error e
CatchError(e) ==
    /\ history' = Append(history, [ok |-> FALSE, error |-> e])
    /\ lastError' = e
    /\ IF IsNonRetryable(e)
       THEN /\ outcome' = [kind |-> "thrown", error |-> e]
            /\ pc' = "thrown"
            /\ UNCHANGED <<attempt, delays, warnCalls>>
       ELSE IF attempt < options.maxRetries
       THEN /\ delays' = Append(delays, BackoffDelay(options, attempt))
            /\ warnCalls' = IF hasLogger THEN warnCalls + 1 ELSE warnCalls
            /\ pc' = "delay"
            /\ UNCHANGED <<attempt, outcome>>
       ELSE /\ attempt' = attempt + 1
            /\ pc' = "loop"
            /\ UNCHANGED <<delays, warnCalls, outcome>>

\* operation() rejects
OperationFails ==
    /\ pc = "inflight"
    /\ \E e \in OperationErrors(execCount) : CatchError(e)
    /\ UNCHANGED <<retryOptions, hasLogger, execCount>>

\* a timer that never fires
DelayElapses_NeverFires ==
    /\ pc = "delay"
    /\ pc' = "delay"
    /\ UNCHANGED <<retryOptions, hasLogger, attempt, lastError, execCount, history,
                   delays, warnCalls, outcome>>

\* the timer of this.delay fires: attempt++ and back to the loop test
DelayElapses ==
    /\ pc = "delay"
    /\ attempt' = attempt + 1
    /\ pc' = "loop"
    /\ UNCHANGED <<retryOptions, hasLogger, lastError, execCount, history,
                   delays, warnCalls, outcome>>

(***************************************************************************)
(* Signature verification.  A string is a sequence of characters, a Buffer *)
(* a sequence of bytes (0..255).                                           *)
(***************************************************************************)
\* number of bytes of a digest (crypto's sha256 gives 32; scaled down here)
DigestBytes == 2
\* longest secret and longest body drawn
MaxTextLen == 2

\* bytes of the secrets and bodies drawn
TextBytes == {1, 2}

\* every secret / body: the byte strings of length 0..MaxTextLen
Texts == UNION { [1..n -> TextBytes] : n \in 0..MaxTextLen }

LowerHex == <<"0", "1", "2", "3", "4", "5", "6", "7",
              "8", "9", "a", "b", "c", "d", "e", "f">>
UpperHex == <<"0", "1", "2", "3", "4", "5", "6", "7",
              "8", "9", "A", "B", "C", "D", "E", "F">>

\* characters a signature header is made of: hex digits of both cases and
\* two characters that are no hex digits
SigChars == {LowerHex[i] : i \in 1..16} \cup {UpperHex[i] : i \in 1..16} \cup {"g", "z"}

\* value of a hex digit, either case; -1 for any other character
HexVal(c) ==
    IF \E i \in 1..16 : LowerHex[i] = c \/ UpperHex[i] = c
    THEN (CHOOSE i \in 1..16 : LowerHex[i] = c \/ UpperHex[i] = c) - 1
    ELSE -1

RECURSIVE HexEncode(_)
\* buf.toString('hex') / digest('hex'): two lower-case digits per byte
HexEncode(bytes) ==
    IF bytes = <<>> THEN <<>>
    ELSE <<LowerHex[(Head(bytes) \div 16) + 1], LowerHex[(Head(bytes) % 16) + 1]>>
         \o HexEncode(Tail(bytes))

RECURSIVE HexDecode(_)
\* Buffer.from(str, 'hex'): one byte per pair of hex digits; decoding stops at
\* the first pair that holds a non-hex character, and a trailing single
\* character is dropped
HexDecode(str) ==
    IF Len(str) < 2 THEN <<>>
    ELSE LET hi == HexVal(str[1])
             lo == HexVal(str[2])
         IN  IF hi = -1 \/ lo = -1 THEN <<>>
             ELSE <<hi * 16 + lo>> \o HexDecode(SubSeq(str, 3, Len(str)))

RECURSIVE Absorb(_, _)
\* running state of the keyed digest after the bytes of text: the bytes
\* read so far as digits of a number in base 3 (the bytes drawn are 1 and 2)
Absorb(h, text) ==
    IF text = <<>> THEN h
    ELSE Absorb(h * 3 + Head(text), Tail(text))

\* crypto.createHmac('sha256', secret).update(body, 'utf8').digest(): a keyed
\* digest of DigestBytes bytes, a function of secret and body alone.  The
\* secret and the body are absorbed with a 0 digit between them, so two
\* different (secret, body) pairs never reach the same state, and the state
\* is spread over the bytes by a multiplication with an odd number, which
\* is one-to-one modulo 256^DigestBytes: as with SHA-256, different inputs
\* drawn here have different digests
HmacDigest(secret, body) ==
    LET h == Absorb(Absorb(1, secret) * 3, body)
        g == (h * 40503 + 12345) % Pow(256, DigestBytes)
    IN  [i \in 1..DigestBytes |-> (g \div Pow(256, DigestBytes - i)) % 256]

\* computeHmac: the digest as a lower-case hex string
computeHmac(secret, body) == HexEncode(HmacDigest(secret, body))

\* provided signature: a string, or undefined
UndefinedSignature == [defined |-> FALSE, text |-> <<>>]
StringSignature(text) == [defined |-> TRUE, text |-> text]

\* a guard that recognises undefined alone
IsFalsy_UndefinedOnly(provided) == ~provided.defined

\* !providedSignature : undefined, or the empty string
IsFalsy(provided) == ~provided.defined \/ provided.text = <<>>

\* crypto.timingSafeEqual(a, b) for buffers of equal length
timingSafeEqual(a, b) == \A i \in 1..Len(a) : a[i] = b[i]

\* a verifier that takes the expected hex string as raw bytes, undecoded
verifySignature_RawExpected(secret, body, provided) ==
    IF IsFalsy(provided) THEN FALSE
    ELSE LET expected == computeHmac(secret, body)
             a == [i \in 1..Len(expected) |-> HexVal(expected[i])]
             b == HexDecode(provided.text)
         IN  IF Len(a) # Len(b) THEN FALSE
             ELSE timingSafeEqual(a, b)

\* verifySignature
verifySignature(secret, body, provided) ==
    IF IsFalsy(provided) THEN FALSE
    ELSE LET expected == computeHmac(secret, body)
             a == HexDecode(expected)
             b == HexDecode(provided.text)
         IN  IF Len(a) # Len(b) THEN FALSE
             ELSE timingSafeEqual(a, b)

\* crypto.timingSafeEqual(a, b) raises a RangeError for buffers of different
\* byte length
timingSafeEqualThrows(a, b) == Len(a) # Len(b)

\* a verifier that compares without the length check
verifySignatureThrows_NoLengthCheck(secret, body, provided) ==
    IF IsFalsy(provided) THEN FALSE
    ELSE timingSafeEqualThrows(HexDecode(computeHmac(secret, body)),
                               HexDecode(provided.text))

\* whether verifySignature raises for these arguments: only timingSafeEqual
\* can, and it is reached after the length check
verifySignatureThrows(secret, body, provided) ==
    IF IsFalsy(provided) THEN FALSE
    ELSE LET expected == computeHmac(secret, body)
             a == HexDecode(expected)
             b == HexDecode(provided.text)
         IN  IF Len(a) # Len(b) THEN FALSE
             ELSE timingSafeEqualThrows(a, b)

\* number of computeHmac calls verifySignature makes for this argument
HmacCallsOf(provided) == IF IsFalsy(provided) THEN 0 ELSE 1

(***************************************************************************)
(* A webhook arrives with some signature header and is verified.           *)
(*   sigPc = "waiting" -> "received" -> "verified"                         *)
(***************************************************************************)
SigIdle ==
    /\ sigSecret = <<>>
    /\ sigBody = <<>>
    /\ sigProvided = UndefinedSignature
    /\ sigPc = "idle"
    /\ sigResult = FALSE
    /\ sigRaised = FALSE
    /\ hmacCalls = 0

SigInit ==
    /\ sigSecret \in Texts
    /\ sigBody \in Texts
    /\ sigProvided = UndefinedSignature
    /\ sigPc = "waiting"
    /\ sigResult = FALSE
    /\ sigRaised = FALSE
    /\ hmacCalls = 0

Receive(provided) ==
    /\ sigPc = "waiting"
    /\ sigProvided' = provided
    /\ sigPc' = "received"
    /\ UNCHANGED <<sigSecret, sigBody, sigResult, sigRaised, hmacCalls>>

\* the sender signed the body with the shared secret
ReceiveSigned == Receive(StringSignature(computeHmac(sigSecret, sigBody)))

\* the header is the valid signature with one character replaced
ReceiveAltered ==
    /\ sigPc = "waiting"
    /\ LET valid == computeHmac(sigSecret, sigBody)
       IN  \E i \in 1..(2 * DigestBytes), c \in SigChars :
               /\ c # valid[i]
               /\ Receive(StringSignature([valid EXCEPT ![i] = c]))

\* the header is the valid signature followed by extra characters
ReceiveExtended ==
    /\ sigPc = "waiting"
    /\ \E extra \in {<<"0">>, <<"z">>, <<"0", "0">>, <<"z", "z">>, <<"0", "z">>} :
        Receive(StringSignature(computeHmac(sigSecret, sigBody) \o extra))

\* the header is a proper prefix of the valid signature
ReceiveTruncated ==
    /\ sigPc = "waiting"
    /\ \E n \in 1..(2 * DigestBytes - 1) :
        Receive(StringSignature(SubSeq(computeHmac(sigSecret, sigBody), 1, n)))

\* the header was signed with another secret
ReceiveForged ==
    /\ sigPc = "waiting"
    /\ \E other \in Texts :
        /\ other # sigSecret
        /\ Receive(StringSignature(computeHmac(other, sigBody)))

\* characters of the malformed headers drawn
MalformedChars == {"0", "z"}

\* the header is any string, of odd or even length, hex or not
ReceiveMalformed ==
    /\ sigPc = "waiting"
    /\ \E n \in 1..(2 * DigestBytes) : \E text \in [1..n -> MalformedChars] :
        Receive(StringSignature(text))

\* no header, or an empty one
ReceiveMissing ==
    \E provided \in {UndefinedSignature, StringSignature(<<>>)} : Receive(provided)

\* the call verifySignature(secret, body, providedSignature)
Verify ==
    /\ sigPc = "received"
    /\ sigRaised' = verifySignatureThrows(sigSecret, sigBody, sigProvided)
    /\ sigResult' = IF sigRaised' THEN sigResult
                    ELSE verifySignature(sigSecret, sigBody, sigProvided)
    /\ hmacCalls' = hmacCalls + HmacCallsOf(sigProvided)
    /\ sigPc' = "verified"
    /\ UNCHANGED <<sigSecret, sigBody, sigProvided>>

(***************************************************************************)
(* WebhookService (src/src/webhook/WebhookHandler.ts).                     *)
(***************************************************************************)
\* most handler registrations made
MaxRegistrations == 2
\* most processWebhook calls made
MaxWebhooks == 1

\* events handlers are registered for and payloads carry
WebhookEvents == {"invoice.paid", "invoice.failed"}

\* the WebhookHandler objects of the application
HandlerIds == {"h1", "h2"}

\* values of payload.status: the InvoiceStatus values and one outside them
PayloadStatuses ==
    {"pending", "paid", "failed", "canceled", "expired", "processing",
     "created", "overpaid", "refunded"}

\* the payloads handed to processWebhook
WebhookPayloads == [event : WebhookEvents, status : PayloadStatuses]

\* processWebhook has not been called
NoRun ==
    [pc |-> "idle", payload |-> [event |-> "", status |-> ""], registered |-> <<>>,
     base |-> 0, pending |-> {}, errors |-> {}]

WhIdle ==
    /\ handlers = [e \in WebhookEvents |-> <<>>]
    /\ handlerCalls = <<>>
    /\ processed = 0
    /\ whRun = NoRun

\* number of registrations made so far
Registrations ==
    Len(handlers["invoice.paid"]) + Len(handlers["invoice.failed"])

\* registerHandler(event, handler)
RegisterHandler ==
    /\ Registrations < MaxRegistrations
    /\ \E e \in WebhookEvents, h \in HandlerIds :
        handlers' = [handlers EXCEPT ![e] = Append(@, h)]
    /\ UNCHANGED <<handlerCalls, processed, whRun>>

\* a switch that takes 'overpaid' for a payment
callHandlerMethod_OverpaidIsPaid(status) ==
    CASE status \in {"paid", "overpaid"} -> "onInvoicePaid"
      [] status = "failed" -> "onInvoiceFailed"
      [] status = "canceled" -> "onInvoiceCanceled"
      [] status = "expired" -> "onInvoiceExpired"
      [] status = "processing" -> "onInvoiceProcessing"
      [] OTHER -> "none"

\* the switch of callHandlerMethod: the handler method called for a status,
\* "none" when no method is called
callHandlerMethod(status) ==
    CASE status = "paid" -> "onInvoicePaid"
      [] status = "failed" -> "onInvoiceFailed"
      [] status = "canceled" -> "onInvoiceCanceled"
      [] status = "expired" -> "onInvoiceExpired"
      [] status = "processing" -> "onInvoiceProcessing"
      [] OTHER -> "none"

RECURSIVE Dispatch(_, _)
\* handlers.map(handler => callHandlerMethod(handler, payload)): the method
\* calls made for the handlers hs, in order
Dispatch(hs, payload) ==
    IF hs = <<>> THEN <<>>
    ELSE (IF callHandlerMethod(payload.status) = "none" THEN <<>>
          ELSE <<[handler |-> Head(hs), method |-> callHandlerMethod(payload.status),
                  event |-> payload.event]>>)
         \o Dispatch(Tail(hs), payload)

\* processWebhook(payload): callable with any payload at any time; it looks up
\* the handlers of payload.event and handlers.map calls the method of each,
\* one after the other, before anything is awaited; Promise.all then waits
\* for the calls
ProcessWebhook ==
    /\ processed < MaxWebhooks
    /\ whRun.pc \in {"idle", "resolved"}
    /\ \E payload \in WebhookPayloads :
        LET made == Dispatch(handlers[payload.event], payload)
        IN  /\ handlerCalls' = handlerCalls \o made
            /\ whRun' = [pc |-> "running", payload |-> payload,
                         registered |-> handlers[payload.event],
                         base |-> Len(handlerCalls),
                         pending |-> (Len(handlerCalls) + 1)..
                                     (Len(handlerCalls) + Len(made)),
                         errors |-> {}]
    /\ processed' = processed + 1
    /\ UNCHANGED handlers

\* the handler method of call i returns or resolves
HandlerFulfils ==
    /\ whRun.pc = "running"
    /\ \E i \in whRun.pending :
        whRun' = [whRun EXCEPT !.pending = @ \ {i}]
    /\ UNCHANGED <<handlers, handlerCalls, processed>>

\* a rejection that is not caught: Promise.all rejects with it at once
HandlerRejects_Propagates ==
    /\ whRun.pc = "running"
    /\ \E i \in whRun.pending :
        whRun' = [whRun EXCEPT !.pending = @ \ {i}, !.errors = @ \cup {i},
                               !.pc = "rejected"]
    /\ UNCHANGED <<handlers, handlerCalls, processed>>

\* the handler method of call i throws or rejects: the catch around
\* callHandlerMethod logs the error with console.error
HandlerRejects ==
    /\ whRun.pc = "running"
    /\ \E i \in whRun.pending :
        whRun' = [whRun EXCEPT !.pending = @ \ {i}, !.errors = @ \cup {i}]
    /\ UNCHANGED <<handlers, handlerCalls, processed>>

\* every promise given to Promise.all has resolved: processWebhook resolves
ProcessResolves ==
    /\ whRun.pc = "running"
    /\ whRun.pending = {}
    /\ whRun' = [whRun EXCEPT !.pc = "resolved"]
    /\ UNCHANGED <<handlers, handlerCalls, processed>>

\* the webhook whose signature the application may verify
WebhookArrives ==
    /\ sigSecret = <<1>>
    /\ sigBody \in {<<1>>, <<2>>}
    /\ sigProvided = UndefinedSignature
    /\ sigPc = "waiting"
    /\ sigResult = FALSE
    /\ sigRaised = FALSE
    /\ hmacCalls = 0

(***************************************************************************)
(* The API methods of CryptocloudClient and CachedCryptocloudClient, one   *)
(* call, against a gateway that may act on a request whose response is     *)
(* lost.                                                                   *)
(***************************************************************************)
\* the methods of CryptocloudClient that call the gateway
ClientMethods ==
    {"createInvoice", "getInvoice", "cancelInvoice", "listInvoices",
     "getInvoiceInfo", "getBalance", "getStatistics", "createStaticWallet",
     "getStaticWallet", "listStaticWallets"}

\* the methods of CachedCryptocloudClient that call the gateway on a cache miss
CachedMethods ==
    {"getInvoiceWithCache", "getBalanceWithCache", "getStatisticsWithCache"}

ApiMethods == ClientMethods \cup CachedMethods

\* the client method a cached variant calls when the cache has no entry
BaseMethod(m) ==
    CASE m = "getInvoiceWithCache" -> "getInvoice"
      [] m = "getBalanceWithCache" -> "getBalance"
      [] m = "getStatisticsWithCache" -> "getStatistics"
      [] OTHER -> m

\* the kinds of argument a method is called with: request.uuids of
\* getInvoiceInfo may be something else than an array, empty, or longer
\* than 100
ApiArgs(m) ==
    IF m = "getInvoiceInfo"
    THEN {"valid", "notArray", "emptyUuids", "tooManyUuids"}
    ELSE {"valid"}

\* the request the operation of a method sends: this.http.post / this.http.get
\* with the path and the body built from the method's argument
ApiRequest(m) ==
    LET b == BaseMethod(m)
    IN  CASE b = "createInvoice" ->
               [verb |-> "POST", url |-> "/v1/invoices", body |-> "payload"]
          [] b = "getInvoice" ->
               [verb |-> "GET", url |-> "/v1/invoices/{invoiceId}", body |-> ""]
          [] b = "cancelInvoice" ->
               [verb |-> "POST", url |-> "/v2/invoice/merchant/canceled", body |-> "uuid"]
          [] b = "listInvoices" ->
               [verb |-> "POST", url |-> "/v2/invoice/merchant/list", body |-> "range"]
          [] b = "getInvoiceInfo" ->
               [verb |-> "POST", url |-> "/v2/invoice/merchant/info", body |-> "request"]
          [] b = "getBalance" ->
               [verb |-> "POST", url |-> "/v2/merchant/wallet/balance/all", body |-> ""]
          [] b = "getStatistics" ->
               [verb |-> "POST", url |-> "/v2/invoice/merchant/statistics", body |-> "range"]
          [] b = "createStaticWallet" ->
               [verb |-> "POST", url |-> "/v2/static-wallet/create", body |-> "request"]
          [] b = "getStaticWallet" ->
               [verb |-> "GET", url |-> "/v2/static-wallet/{walletId}", body |-> ""]
          [] OTHER ->
               [verb |-> "GET", url |-> "/v2/static-wallet/list", body |-> ""]

\* failures of one transport call of an API method, as the response
\* interceptor rejects them: every one has passed through handleAxiosError
ApiErrors(n) ==
    { handleAxiosError(e, n) :
        e \in { x \in AxiosErrors : x.status \in {Undefined, 403, 404, 500} } }

\* no response body has reached the operation
NoBody == [status |-> "none", validateError |-> "", detail |-> "", result |-> ""]

\* bodies of 2xx responses to POST /v2/invoice/merchant/info with status
\* 'success'; "" stands for a missing field
SuccessBodies ==
    { [status |-> "success", validateError |-> "", detail |-> "", result |-> r] :
        r \in {"r1", "r2"} }

\* bodies with another status or none (a missing body among them), with or
\* without result.validate_error and detail
OtherBodies ==
    { [status |-> st, validateError |-> v, detail |-> d, result |-> "r1"] :
        st \in {"error", ""}, v \in {"", "Max 100 uuids", "Invalid uuid"},
        d \in {"", "Not found"} }

\* a test that takes a body without status for a success
IsSuccess_MissingStatusPasses(data) == data.status # "error"

\* `data?.status !== 'success'` negated
IsSuccess(data) == data.status = "success"

\* the error getInvoiceInfo throws for a body that is not a success
InfoBodyError(data, n) ==
    LET message == IF data.validateError # "" THEN data.validateError
                   ELSE IF data.detail # "" THEN data.detail
                   ELSE "Unknown API error"
        code == IF data.validateError = "Max 100 uuids" THEN "MAX_UUIDS_EXCEEDED"
                ELSE "API_ERROR"
    IN  CryptocloudError(message, code, Undefined, n)

\* one API method is called; no method passes retry options to withRetry
ApiInit ==
    /\ apiMethod \in ApiMethods
    /\ apiArg \in ApiArgs(apiMethod)
    /\ requests = <<>>
    /\ remoteDone = FALSE
    /\ remoteInvoices = 0
    /\ responseBody = NoBody
    /\ cachedPc = IF apiMethod \in CachedMethods THEN "calling" ELSE "none"
    /\ retryOptions = <<>>
    /\ hasLogger \in BOOLEAN
    /\ pc = "loop"
    /\ attempt = 0
    /\ lastError = NoError
    /\ execCount = 0
    /\ history = <<>>
    /\ delays = <<>>
    /\ warnCalls = 0
    /\ outcome = NoOutcome

\* an operation that sends its request on the first attempt only
ApiStartAttempt_Deduplicates ==
    /\ StartAttempt
    /\ IF apiArg = "valid" /\ requests = <<>>
       THEN requests' = Append(requests, ApiRequest(apiMethod))
       ELSE requests' = requests
    /\ remoteDone' = FALSE
    /\ responseBody' = NoBody
    /\ UNCHANGED <<apiMethod, apiArg, remoteInvoices, cachedPc>>

\* withRetry calls the operation: getInvoiceInfo checks request.uuids first,
\* every other operation sends its request at once
ApiStartAttempt ==
    /\ StartAttempt
    /\ IF apiArg = "valid"
       THEN requests' = Append(requests, ApiRequest(apiMethod))
       ELSE requests' = requests
    /\ remoteDone' = FALSE
    /\ responseBody' = NoBody
    /\ UNCHANGED <<apiMethod, apiArg, remoteInvoices, cachedPc>>

\* the gateway acts on the request in flight; POST /v1/invoices creates an
\* invoice
RemoteProcesses ==
    /\ pc = "inflight"
    /\ apiArg = "valid"
    /\ ~remoteDone
    /\ remoteDone' = TRUE
    /\ remoteInvoices' =
         IF ApiRequest(apiMethod).url = "/v1/invoices" THEN remoteInvoices + 1
         ELSE remoteInvoices
    /\ UNCHANGED <<apiMethod, apiArg, requests, responseBody, cachedPc>>

\* the response arrives with a 2xx status and the operation returns: data
\* for every method but getInvoiceInfo, which returns data.result when the
\* body passes its test; withRetry returns it
ApiResponds ==
    /\ apiArg = "valid"
    /\ remoteDone
    /\ OperationSucceeds
    /\ IF apiMethod = "getInvoiceInfo"
       THEN \E data \in SuccessBodies \cup OtherBodies :
               /\ IsSuccess(data)
               /\ data.result = outcome'.result.value
               /\ responseBody' = data
       ELSE responseBody' = responseBody
    /\ UNCHANGED <<apiMethod, apiArg, requests, remoteDone, remoteInvoices, cachedPc>>

\* getInvoiceInfo only: the response arrives with a 2xx status and a body
\* that does not pass the test: the operation throws
ApiBodyRejected ==
    /\ pc = "inflight"
    /\ apiMethod = "getInvoiceInfo"
    /\ apiArg = "valid"
    /\ remoteDone
    /\ \E data \in SuccessBodies \cup OtherBodies :
        /\ ~IsSuccess(data)
        /\ responseBody' = data
        /\ CatchError(InfoBodyError(data, execCount))
    /\ UNCHANGED <<retryOptions, hasLogger, execCount>>
    /\ UNCHANGED <<apiMethod, apiArg, requests, remoteDone, remoteInvoices, cachedPc>>

\* createInvoice and createStaticWallet of a client with a logger only: the
\* response arrives with a 2xx status and no body, and the operation's
\* `this.logger?.info(..., { invoiceId: data.id })` raises a TypeError
ApiBodyMissing ==
    /\ pc = "inflight"
    /\ apiMethod \in {"createInvoice", "createStaticWallet"}
    /\ hasLogger
    /\ remoteDone
    /\ CatchError(ForeignError(Undefined, execCount))
    /\ UNCHANGED <<retryOptions, hasLogger, execCount>>
    /\ UNCHANGED apiVars

\* getInvoiceInfo only: request.uuids is rejected before anything is sent
ApiValidationThrows ==
    /\ pc = "inflight"
    /\ apiArg # "valid"
    /\ CatchError(IF apiArg \in {"notArray", "emptyUuids"}
                  THEN CryptocloudError("uuids must be a non-empty array",
                                        "INVALID_ARGUMENT", Undefined, execCount)
                  ELSE CryptocloudError("Max 100 uuids", "MAX_UUIDS_EXCEEDED",
                                        400, execCount))
    /\ UNCHANGED <<retryOptions, hasLogger, execCount>>
    /\ UNCHANGED apiVars

\* the transport call fails: an error status from the gateway, which then has
\* not acted on the request, or no response at all, whether or not it has
ApiRequestFails ==
    /\ pc = "inflight"
    /\ apiArg = "valid"
    /\ \E e \in ApiErrors(execCount) :
        /\ remoteDone => e.statusCode = Undefined
        /\ CatchError(e)
    /\ UNCHANGED <<retryOptions, hasLogger, execCount>>
    /\ UNCHANGED apiVars

(***************************************************************************)
(* Several withRetry invocations on one client.  Every local of withRetry  *)
(* (options, lastError, attempt) lives in the invocation; the invocations  *)
(* interleave at their awaits.                                             *)
(***************************************************************************)
\* number of concurrent invocations
NumCalls == 2
\* largest maxRetries passed by a concurrent invocation
MaxConcRetries == 1

CallIds == 1..NumCalls

\* the retryOptions arguments of the concurrent invocations
ConcRetryOptions == { [maxRetries |-> n, delayMs |-> 1] : n \in 0..MaxConcRetries }

\* what the n-th operation() call of a concurrent invocation can raise
ConcErrors(n) ==
    { handleAxiosError(e, n) :
        e \in { x \in AxiosErrors : x.status \in {400, 500} /\ x.data = NoData } }

\* what it can resolve to
ConcResults(n) == { [value |-> "r1", seq |-> n] }

\* an invocation before withRetry is entered, with its argument
IdleCall(ro) ==
    [retryOptions |-> ro, pc |-> "idle", attempt |-> 0, lastError |-> NoError,
     execCount |-> 0, history |-> <<>>, delays |-> <<>>, outcome |-> NoOutcome]

ConcInit ==
    /\ calls \in [CallIds -> { IdleCall(ro) : ro \in ConcRetryOptions }]
    /\ overtaken = [c \in CallIds |-> {}]

\* one attempt counter for the whole client
CounterOf_Shared(c) == 1

\* the invocation whose frame holds the attempt counter of invocation c:
\* `let attempt = 0` is a local of the for statement of withRetry
CounterOf(c) == c

\* the value of the attempt counter of invocation c
AttemptOf(c) == calls[CounterOf(c)].attempt

\* options of invocation c: { ...DEFAULT_RETRY_OPTIONS, ...retryOptions }
OptionsOf(c) == MergeOptions(calls[c].retryOptions)

\* a delay that keeps the thread until its time has passed
Runnable_BusyWait(d) == \A c \in CallIds \ {d} : calls[c].pc # "delay"

\* whether the event loop can run invocation d: this.delay returns a promise
\* resolved by setTimeout, so an invocation awaiting it holds nothing
Runnable(d) == TRUE

\* withRetry is called: the counter starts at 0
Invoke(c) ==
    /\ calls[c].pc = "idle"
    /\ Runnable(c)
    /\ calls' = [calls EXCEPT ![CounterOf(c)].attempt = 0, ![c].pc = "loop"]
    /\ overtaken' = [x \in CallIds |->
                       IF x # c /\ calls[x].pc = "delay"
                       THEN overtaken[x] \cup {c} ELSE overtaken[x]]

\* the loop test holds: operation() is called and awaited
CallStartAttempt(c) ==
    /\ calls[c].pc = "loop"
    /\ Runnable(c)
    /\ LoopTest(AttemptOf(c), OptionsOf(c))
    /\ calls' = [calls EXCEPT ![c].execCount = @ + 1, ![c].pc = "inflight"]
    /\ UNCHANGED overtaken

\* the loop test fails: throw lastError
CallExitLoop(c) ==
    /\ calls[c].pc = "loop"
    /\ Runnable(c)
    /\ ~LoopTest(AttemptOf(c), OptionsOf(c))
    /\ calls' = [calls EXCEPT
                   ![c].outcome = [kind |-> "thrown", error |-> calls[c].lastError],
                   ![c].pc = "thrown"]
    /\ UNCHANGED overtaken

\* operation() resolves: return await operation()
CallSucceeds(c) ==
    /\ calls[c].pc = "inflight"
    /\ Runnable(c)
    /\ \E r \in ConcResults(calls[c].execCount) :
        calls' = [calls EXCEPT
                    ![c].history = Append(@, [ok |-> TRUE, result |-> r]),
                    ![c].outcome = [kind |-> "returned", result |-> r],
                    ![c].pc = "returned"]
    /\ UNCHANGED overtaken

\* operation() rejects: the catch block
CallFails(c) ==
    /\ calls[c].pc = "inflight"
    /\ Runnable(c)
    /\ \E e \in ConcErrors(calls[c].execCount) :
        IF IsNonRetryable(e)
        THEN /\ calls' = [calls EXCEPT
                            ![c].history = Append(@, [ok |-> FALSE, error |-> e]),
                            ![c].lastError = e,
                            ![c].outcome = [kind |-> "thrown", error |-> e],
                            ![c].pc = "thrown"]
             /\ UNCHANGED overtaken
        ELSE IF AttemptOf(c) < OptionsOf(c).maxRetries
        THEN /\ calls' = [calls EXCEPT
                            ![c].history = Append(@, [ok |-> FALSE, error |-> e]),
                            ![c].lastError = e,
                            ![c].delays =
                                Append(@, BackoffDelay(OptionsOf(c), AttemptOf(c))),
                            ![c].pc = "delay"]
             /\ overtaken' = [overtaken EXCEPT ![c] = {}]
        ELSE /\ calls' = [calls EXCEPT
                            ![c].history = Append(@, [ok |-> FALSE, error |-> e]),
                            ![c].lastError = e,
                            ![CounterOf(c)].attempt = @ + 1,
                            ![c].pc = "loop"]
             /\ UNCHANGED overtaken

\* the timer of this.delay fires: attempt++ and back to the loop test
CallDelayElapses(c) ==
    /\ calls[c].pc = "delay"
    /\ Runnable(c)
    /\ calls' = [calls EXCEPT ![CounterOf(c)].attempt = @ + 1, ![c].pc = "loop"]
    /\ overtaken' = [overtaken EXCEPT ![c] = {}]

\* the next step of invocation c, whichever it is
CallStep(c) ==
    \/ Invoke(c)
    \/ CallStartAttempt(c)
    \/ CallExitLoop(c)
    \/ CallSucceeds(c)
    \/ CallFails(c)
    \/ CallDelayElapses(c)

(***************************************************************************)
(* MemoryCache (src/src/utils/CryptocloudCache.ts).  The map is a function *)
(* from the stored keys to { value, expires }; each method is an operator  *)
(* from the map, its arguments and Date.now() to what it leaves.           *)
(***************************************************************************)
\* the values Date.now() takes: around 0 and around both TTLs of the client
Times == {0, 1, 60000, 60001, 60002, 300000, 300001, 300002}

\* null, and the objects a cache holds: req tells one object from another
Null == [kind |-> "null", req |-> 0]
Object(n) == [kind |-> "object", req |-> n]

\* the map m without the key
Without(m, key) == [k \in DOMAIN m \ {key} |-> m[k]]

\* a get that treats the instant of expiry as expired
MemoryCacheGet_ExpiredAtDeadline(m, key, t) ==
    IF key \notin DOMAIN m THEN [value |-> Null, cache |-> m]
    ELSE IF t >= m[key].expires THEN [value |-> Null, cache |-> Without(m, key)]
    ELSE [value |-> m[key].value, cache |-> m]

\* get(key) at time t: the value returned and the map left
MemoryCacheGet(m, key, t) ==
    IF key \notin DOMAIN m THEN [value |-> Null, cache |-> m]
    ELSE IF t > m[key].expires THEN [value |-> Null, cache |-> Without(m, key)]
    ELSE [value |-> m[key].value, cache |-> m]

\* set(key, value, ttl) at time t
MemoryCacheSet(m, key, value, ttl, t) ==
    [k \in DOMAIN m \cup {key} |->
        IF k = key THEN [value |-> value, expires |-> t + ttl] ELSE m[k]]

\* delete(key)
MemoryCacheDelete(m, key) == Without(m, key)

\* clear()
MemoryCacheClear(m) == <<>>

\* cleanup() at time t
MemoryCacheCleanup(m, t) ==
    [k \in { x \in DOMAIN m : ~(t > m[x].expires) } |-> m[k]]

\* size()
MemoryCacheSize(m) == Cardinality(DOMAIN m)

\* keys and ttl arguments of the direct uses of a MemoryCache; the n-th set
\* stores the object n
MemKeys == {"k1", "k2"}
MemTtls == {0, 1, 60000}

\* most set calls made on the cache
MaxSets == 2

NoMemOp == [op |-> "none"]

MemInit ==
    /\ now = 0
    /\ cache = <<>>
    /\ memLast = NoMemOp
    /\ memSets = <<>>

\* number of set calls made so far
SetsMade == IF memLast = NoMemOp THEN 0 ELSE memLast.sets

\* time passes
Tick ==
    /\ \E t \in Times : t > now /\ now' = t
    /\ UNCHANGED <<cache, memLast, memSets>>

MemGet ==
    /\ memLast # NoMemOp
    /\ \E key \in MemKeys :
        LET r == MemoryCacheGet(cache, key, now)
        IN  /\ cache' = r.cache
            /\ memLast' = [op |-> "get", key |-> key, at |-> now, result |-> r.value,
                           before |-> cache, size |-> 0, sets |-> SetsMade]
    /\ UNCHANGED <<now, memSets>>

MemSet ==
    /\ SetsMade < MaxSets
    /\ \E key \in MemKeys, ttl \in MemTtls :
        /\ cache' = MemoryCacheSet(cache, key, Object(SetsMade + 1), ttl, now)
        /\ memSets' = [k \in DOMAIN memSets \cup {key} |->
                          IF k = key THEN [at |-> now, ttl |-> ttl, value |-> Object(SetsMade + 1)]
                          ELSE memSets[k]]
        /\ memLast' = [op |-> "set", key |-> key, at |-> now, result |-> Null,
                       before |-> cache, size |-> 0, sets |-> SetsMade + 1]
    /\ UNCHANGED now

MemCleanup ==
    /\ memLast # NoMemOp
    /\ cache' = MemoryCacheCleanup(cache, now)
    /\ memLast' = [op |-> "cleanup", key |-> "", at |-> now, result |-> Null,
                   before |-> cache, size |-> 0, sets |-> SetsMade]
    /\ UNCHANGED <<now, memSets>>

\* delete(key): the entry of the key, if any, is gone
MemDelete ==
    /\ memLast # NoMemOp
    /\ \E key \in MemKeys :
        /\ cache' = MemoryCacheDelete(cache, key)
        /\ memSets' = Without(memSets, key)
        /\ memLast' = [op |-> "delete", key |-> key, at |-> now, result |-> Null,
                       before |-> cache, size |-> 0, sets |-> SetsMade]
    /\ UNCHANGED now

\* clear(): every entry is gone
MemClear ==
    /\ memLast # NoMemOp
    /\ cache' = MemoryCacheClear(cache)
    /\ memSets' = <<>>
    /\ memLast' = [op |-> "clear", key |-> "", at |-> now, result |-> Null,
                   before |-> cache, size |-> 0, sets |-> SetsMade]
    /\ UNCHANGED now

MemSize ==
    /\ memLast # NoMemOp
    /\ memLast' = [op |-> "size", key |-> "", at |-> now, result |-> Null,
                   before |-> cache, size |-> MemoryCacheSize(cache),
                   sets |-> SetsMade]
    /\ UNCHANGED <<now, cache, memSets>>

(***************************************************************************)
(* CachedCryptocloudClient (src/src/client/CachedCryptocloudClient.ts)     *)
(* over a MemoryCache: several calls of one cached method with the same    *)
(* argument, and the invalidation of its key.  A call is suspended at each *)
(* of its awaits, where other calls and the clock may move.                *)
(***************************************************************************)
\* number of callers of the cached method
NumGetters == 2
\* most calls of the cached method made
MaxGets == 2
\* most invalidations made
MaxInvalidations == 1

GetterIds == 1..NumGetters

\* InvoiceCacheUtils.getInvoiceKey / getBalanceKey / getStatisticsKey for the
\* argument of the calls
CacheKey(m) ==
    CASE m = "getInvoiceWithCache" -> "invoice:a"
      [] m = "getBalanceWithCache" -> "balance:all"
      [] OTHER -> "statistics:s:e"

\* one ttl of five minutes for every method
CacheTtl_AllFiveMinutes(m) == 300000

\* InvoiceCacheUtils.getInvoiceTtl / getBalanceTtl / getStatisticsTtl
CacheTtl(m) ==
    CASE m = "getInvoiceWithCache" -> 300000
      [] m = "getBalanceWithCache" -> 60000
      [] OTHER -> 300000

\* `if (cached)`
IsTruthy(v) == v.kind # "null"

NoStore == [at |-> -1, value |-> Null]

\* nothing has happened to the entry yet
NoCacheEvents ==
    [store |-> NoStore, hitAt |-> -1, arrived |-> {}, stale |-> {},
     invalidations |-> 0, failures |-> 0, gets |-> 0, clientCalls |-> 0,
     lastClient |-> [method |-> "none", gets |-> 0, stored |-> FALSE]]

\* a caller that has made no call
IdleGetter ==
    [pc |-> "idle", cached |-> Null, req |-> 0, fetched |-> Null, result |-> Null,
     requested |-> FALSE, threw |-> FALSE]

\* the values Date.now() takes while method m is called: the start, and the
\* last instant before and the first after the expiry of an entry set then
CachedTimes(m) ==
    { t \in Times : t = 0 \/ (t >= CacheTtl(m) /\ t <= CacheTtl(m) + 1) }

\* time passes
CachedTick ==
    /\ \E t \in CachedTimes(cMethod) : t > now /\ now' = t
    /\ UNCHANGED <<cache, memLast, memSets>>

CachedInit ==
    /\ cMethod \in CachedMethods
    /\ getters = [g \in GetterIds |-> IdleGetter]
    /\ apiLog = <<>>
    /\ cacheMon = NoCacheEvents

\* the method is called: `await this.cache.get(cacheKey)` runs MemoryCache.get.
\* The callers are numbered in the order of their first calls.
CallCached(g) ==
    /\ getters[g].pc \in {"idle", "done"}
    /\ \A h \in GetterIds : h < g => getters[h].pc # "idle"
    /\ cacheMon.gets < MaxGets
    /\ LET r == MemoryCacheGet(cache, CacheKey(cMethod), now)
       IN  /\ cache' = r.cache
           /\ getters' = [getters EXCEPT ![g] =
                  [IdleGetter EXCEPT !.pc = "gotCache", !.cached = r.value]]
           /\ cacheMon' = [cacheMon EXCEPT
                              !.gets = @ + 1,
                              !.hitAt = IF IsTruthy(r.value) THEN now ELSE @]
    /\ UNCHANGED <<now, memLast, memSets, cMethod, apiLog>>

\* the await of cache.get is over: `if (cached) return cached`, otherwise
\* the client method is called and awaited
CacheAnswered(g) ==
    /\ getters[g].pc = "gotCache"
    /\ IF IsTruthy(getters[g].cached)
       THEN /\ getters' = [getters EXCEPT ![g] =
                   [IdleGetter EXCEPT !.pc = "done", !.result = getters[g].cached]]
            /\ UNCHANGED apiLog
       ELSE /\ getters' = [getters EXCEPT ![g].pc = "fetching",
                                          ![g].requested = TRUE,
                                          ![g].req = Len(apiLog) + 1]
            /\ apiLog' = Append(apiLog, [key |-> CacheKey(cMethod), at |-> now])
    /\ UNCHANGED <<memVars, cMethod, cacheMon>>

\* the client method resolves with what the gateway holds now
ApiReturns(g) ==
    /\ getters[g].pc = "fetching"
    /\ getters' = [getters EXCEPT ![g].pc = "fetched",
                                  ![g].fetched = Object(getters[g].req)]
    /\ cacheMon' = [cacheMon EXCEPT !.arrived = @ \cup {getters[g].req}]
    /\ UNCHANGED <<memVars, cMethod, apiLog>>

\* a rejection that leaves an entry for the key behind
ApiThrows_StoresEntry(g) ==
    /\ getters[g].pc = "fetching"
    /\ getters' = [getters EXCEPT ![g] =
           [IdleGetter EXCEPT !.pc = "done", !.requested = TRUE, !.threw = TRUE]]
    /\ cacheMon' = [cacheMon EXCEPT !.failures = @ + 1]
    /\ cache' = MemoryCacheSet(cache, CacheKey(cMethod), Object(getters[g].req),
                               CacheTtl(cMethod), now)
    /\ UNCHANGED <<now, memLast, memSets, cMethod, apiLog>>

\* the client method rejects: the cached method rejects, nothing is stored
ApiThrows(g) ==
    /\ getters[g].pc = "fetching"
    /\ getters' = [getters EXCEPT ![g] =
           [IdleGetter EXCEPT !.pc = "done", !.requested = TRUE, !.threw = TRUE]]
    /\ cacheMon' = [cacheMon EXCEPT !.failures = @ + 1]
    /\ UNCHANGED <<memVars, cMethod, apiLog>>

\* the await of the client method is over: `this.cache.set(cacheKey, value,
\* ttl)` runs MemoryCache.set, and the call is suspended at the await of
\* its promise
StoreFetched(g) ==
    /\ getters[g].pc = "fetched"
    /\ cache' = MemoryCacheSet(cache, CacheKey(cMethod), getters[g].fetched,
                               CacheTtl(cMethod), now)
    /\ getters' = [getters EXCEPT ![g].pc = "stored"]
    /\ cacheMon' = [cacheMon EXCEPT
                       !.store = [at |-> now, value |-> getters[g].fetched]]
    /\ UNCHANGED <<now, memLast, memSets, cMethod, apiLog>>

\* the await of cache.set is over: the fetched value is returned
ReturnFetched(g) ==
    /\ getters[g].pc = "stored"
    /\ getters' = [getters EXCEPT ![g] =
           [IdleGetter EXCEPT !.pc = "done", !.requested = TRUE,
                              !.result = getters[g].fetched]]
    /\ UNCHANGED <<memVars, cMethod, apiLog, cacheMon>>

\* invalidateInvoiceCache / invalidateBalanceCache / invalidateStatisticsCache
\* for the key of the calls, or clearCache: `await this.cache.delete(cacheKey)`
\* or `await this.cache.clear()`
Invalidate ==
    /\ cacheMon.invalidations < MaxInvalidations
    /\ \/ cache' = MemoryCacheDelete(cache, CacheKey(cMethod))
       \/ cache' = MemoryCacheClear(cache)
    /\ cacheMon' = [cacheMon EXCEPT !.invalidations = @ + 1, !.store = NoStore,
                                    !.stale = cacheMon.arrived]
    /\ UNCHANGED <<now, memLast, memSets, cMethod, getters, apiLog>>

\* most calls of the inherited client methods made
MaxClientCalls == 1

\* the inherited methods called on the cached client
InheritedMethods == {"createInvoice", "getInvoice", "cancelInvoice"}

\* a cancelInvoice that drops the cached invoice
ClientCall_CancelInvalidates ==
    /\ cacheMon.clientCalls < MaxClientCalls
    /\ \E m \in InheritedMethods :
        /\ cacheMon' = [cacheMon EXCEPT
               !.clientCalls = @ + 1,
               !.lastClient = [method |-> m, gets |-> cacheMon.gets,
                               stored |-> cacheMon.store # NoStore]]
        /\ cache' = IF m = "cancelInvoice"
                    THEN MemoryCacheDelete(cache, CacheKey(cMethod))
                    ELSE cache
    /\ UNCHANGED <<now, memLast, memSets, cMethod, getters, apiLog>>

\* createInvoice / getInvoice / cancelInvoice of CryptocloudClient, which
\* CachedCryptocloudClient inherits unchanged, is called for the invoice of
\* the cached calls and resolves: withRetry and this.http only, this.cache
\* is not used
ClientCall ==
    /\ cacheMon.clientCalls < MaxClientCalls
    /\ \E m \in InheritedMethods :
        cacheMon' = [cacheMon EXCEPT
            !.clientCalls = @ + 1,
            !.lastClient = [method |-> m, gets |-> cacheMon.gets,
                            stored |-> cacheMon.store # NoStore]]
    /\ UNCHANGED <<memVars, cMethod, getters, apiLog>>

(***************************************************************************)
(* A cached variant around its call of the client method                   *)
(* (CachedCryptocloudClient.ts 26-76).  It found the cache empty and       *)
(* awaits the method: cachedPc = "calling" -> "stored" -> "returned", or   *)
(* "calling" -> "thrown".  Each await is a point where the clock can have  *)
(* moved on.                                                               *)
(***************************************************************************)
\* time passes while the variant is at an await
ApiClockAdvances ==
    /\ cachedPc \in {"calling", "stored"}
    /\ \E t \in CachedTimes(apiMethod) : t > now /\ now' = t
    /\ UNCHANGED <<cache, memLast, memSets>>
    /\ UNCHANGED <<retryVars, apiVars>>

\* the client method has returned and the variant resumes from its await:
\* `this.cache.set(cacheKey, value, ttl)` writes the entry
ApiCachedStores ==
    /\ cachedPc = "calling"
    /\ pc = "returned"
    /\ cache' = MemoryCacheSet(cache, CacheKey(apiMethod), outcome.result,
                               CacheTtl(apiMethod), now)
    /\ cachedPc' = "stored"
    /\ UNCHANGED <<now, memLast, memSets>>
    /\ UNCHANGED <<apiMethod, apiArg, requests, remoteDone, remoteInvoices, responseBody>>
    /\ UNCHANGED retryVars

\* the await of cache.set is over: the variant returns the value
ApiCachedReturns ==
    /\ cachedPc = "stored"
    /\ cachedPc' = "returned"
    /\ UNCHANGED <<apiMethod, apiArg, requests, remoteDone, remoteInvoices, responseBody>>
    /\ UNCHANGED <<retryVars, memVars>>

\* the client method has thrown: the error leaves the variant, which stores
\* nothing
ApiCachedThrows ==
    /\ cachedPc = "calling"
    /\ pc = "thrown"
    /\ cachedPc' = "thrown"
    /\ UNCHANGED <<apiMethod, apiArg, requests, remoteDone, remoteInvoices, responseBody>>
    /\ UNCHANGED <<retryVars, memVars>>

(***************************************************************************)
(* MockCryptocloudClient (src/unnamed/part_004).  Invoice objects live in  *)
(* the heap; the map `invoices` and the results of the methods hold        *)
(* references to them, so a change made through one reference is seen      *)
(* through every other.                                                    *)
(***************************************************************************)
\* most calls made on the mock
MaxMockOps == 3

\* `test-invoice-${n}` and `uuid-${n}`
TestInvoiceId(n) == <<"test-invoice-", n>>
TestUuid(n) == <<"uuid-", n>>

\* the create requests, and the invoices the test builds for addInvoice:
\* one with an id and uuid of the kind createInvoice makes, one with its own;
\* no two ids share a uuid
MockPayloads == [amount : {100, 250}, currency : {"USDT"}]
MockAdded ==
    [id : {TestInvoiceId(1)}, uuid : {TestUuid(2)},
     status : {"paid", "pending"}, amount : {100}, currency : {"USDT"}]
    \cup [id : {<<"inv-", 7>>}, uuid : {TestUuid(9)},
          status : {"paid", "pending"}, amount : {100}, currency : {"USDT"}]

\* the ids getInvoice and setInvoiceStatus are called with
MockIds == {TestInvoiceId(1), TestInvoiceId(2), <<"inv-", 7>>}

successStatuses == {"paid", "success", "completed", "succeeded", "overpaid"}

\* CryptocloudClient.isInvoicePaid
isInvoicePaid(invoice) == invoice.status \in successStatuses

errorStatuses == {"error", "failed", "canceled", "expired"}
pendingStatuses == {"pending", "processing", "created"}

\* CryptocloudClient.isInvoiceFailed
isInvoiceFailed(invoice) == invoice.status \in errorStatuses

\* a test for pending that leaves 'created' out
isInvoicePending_OmitsCreated(invoice) == invoice.status \in {"pending", "processing"}

\* CryptocloudClient.isInvoicePending
isInvoicePending(invoice) == invoice.status \in pendingStatuses

\* the type InvoiceStatus
InvoiceStatus ==
    {"pending", "paid", "failed", "canceled", "expired", "processing", "created",
     "overpaid"}

\* the invoices the three tests are called with: every InvoiceStatus, the
\* other members of the three lists, and statuses in no list (Invoice.status
\* arrives from the gateway as a string and is cast with `as any`)
ClassifiedInvoices ==
    [id : {TestInvoiceId(1)}, uuid : {TestUuid(2)},
     status : InvoiceStatus \cup successStatuses \cup errorStatuses
                \cup pendingStatuses \cup {"refunded", ""},
     amount : {100, 250}, currency : {"USDT"}]

\* the tests a caller makes on an invoice
Classifiers == {"isInvoicePaid", "isInvoiceFailed", "isInvoicePending"}

\* one invoice is at hand and none of the tests has been called
ClassifyInit ==
    /\ invoices = <<>>
    /\ \E invoice \in ClassifiedInvoices : heap = <<invoice>>
    /\ nextInvoiceId = 1
    /\ mockLast = [called |-> {}, answers |-> [c \in {} |-> FALSE]]

\* isInvoicePaid(invoice), isInvoiceFailed(invoice) or
\* isInvoicePending(invoice) is called and its answer kept
ClassifyInvoice ==
    \E c \in Classifiers \ mockLast.called :
        LET invoice == heap[Len(heap)]
            answer == CASE c = "isInvoicePaid" -> isInvoicePaid(invoice)
                        [] c = "isInvoiceFailed" -> isInvoiceFailed(invoice)
                        [] OTHER -> isInvoicePending(invoice)
        IN  /\ mockLast' = [called |-> mockLast.called \cup {c},
                            answers |-> [d \in mockLast.called \cup {c} |->
                                           IF d = c THEN answer
                                           ELSE mockLast.answers[d]]]
            /\ UNCHANGED <<invoices, heap, nextInvoiceId>>

\* no call has been made on the mock
NoMockOp ==
    [op |-> "none", arg |-> <<>>, result |-> 0, raised |-> FALSE, paid |-> FALSE,
     before |-> <<>>, prevOp |-> "none", prevResult |-> 0, said |-> <<>>,
     ops |-> 0, clears |-> 0]

MockInit ==
    /\ invoices = <<>>
    /\ heap = <<>>
    /\ nextInvoiceId = 1
    /\ mockLast = NoMockOp

\* the reference of the next object created
NewRef == Len(heap) + 1

\* the map m with key bound to v
With(m, key, v) == [k \in DOMAIN m \cup {key} |-> IF k = key THEN v ELSE m[k]]

\* what every call leaves in mockLast, given what it did
MockDone(op, arg, result, raised, paid, said) ==
    [op |-> op, arg |-> arg, result |-> result, raised |-> raised, paid |-> paid,
     before |-> invoices, prevOp |-> mockLast.op, prevResult |-> mockLast.result,
     said |-> said, ops |-> mockLast.ops + 1,
     clears |-> IF op = "clearInvoices" THEN mockLast.clears + 1
                ELSE mockLast.clears]

\* a createInvoice that stores the invoice under its uuid
MockCreateInvoice_KeyedByUuid ==
    /\ mockLast.ops < MaxMockOps
    /\ \E payload \in MockPayloads :
        LET invoice == [id |-> TestInvoiceId(nextInvoiceId),
                        uuid |-> TestUuid(nextInvoiceId + 1),
                        status |-> "pending", amount |-> payload.amount,
                        currency |-> payload.currency]
        IN  /\ heap' = Append(heap, invoice)
            /\ invoices' = With(invoices, invoice.uuid, NewRef)
            /\ mockLast' = MockDone("createInvoice", payload, NewRef, FALSE, FALSE,
                                    With(mockLast.said, invoice.id, NewRef))
    /\ nextInvoiceId' = nextInvoiceId + 1

\* createInvoice(payload): the id takes nextInvoiceId and increments it, the
\* uuid takes the incremented value
MockCreateInvoice ==
    /\ mockLast.ops < MaxMockOps
    /\ \E payload \in MockPayloads :
        LET invoice == [id |-> TestInvoiceId(nextInvoiceId),
                        uuid |-> TestUuid(nextInvoiceId + 1),
                        status |-> "pending", amount |-> payload.amount,
                        currency |-> payload.currency]
        IN  /\ heap' = Append(heap, invoice)
            /\ invoices' = With(invoices, invoice.id, NewRef)
            /\ mockLast' = MockDone("createInvoice", payload, NewRef, FALSE, FALSE,
                                    With(mockLast.said, invoice.id, NewRef))
    /\ nextInvoiceId' = nextInvoiceId + 1

\* getInvoice(invoiceId), followed by isInvoicePaid of what it returned
MockGetInvoice ==
    /\ mockLast.ops < MaxMockOps
    /\ \E id \in MockIds :
        IF id \in DOMAIN invoices
        THEN mockLast' = MockDone("getInvoice", id, invoices[id], FALSE,
                                  isInvoicePaid(heap[invoices[id]]), mockLast.said)
        ELSE mockLast' = MockDone("getInvoice", id, 0, TRUE, FALSE, mockLast.said)
    /\ UNCHANGED <<invoices, heap, nextInvoiceId>>

\* an addInvoice that leaves an invoice already stored under the id in place
MockAddInvoice_KeepsExisting ==
    /\ mockLast.ops < MaxMockOps
    /\ \E invoice \in MockAdded :
        /\ heap' = Append(heap, invoice)
        /\ invoices' = IF invoice.id \in DOMAIN invoices THEN invoices
                       ELSE With(invoices, invoice.id, NewRef)
        /\ mockLast' = MockDone("addInvoice", invoice.id, NewRef, FALSE, FALSE,
                                With(mockLast.said, invoice.id, NewRef))
    /\ UNCHANGED nextInvoiceId

\* addInvoice(invoice) with an invoice object the test has just built
MockAddInvoice ==
    /\ mockLast.ops < MaxMockOps
    /\ \E invoice \in MockAdded :
        /\ heap' = Append(heap, invoice)
        /\ invoices' = With(invoices, invoice.id, NewRef)
        /\ mockLast' = MockDone("addInvoice", invoice.id, NewRef, FALSE, FALSE,
                                With(mockLast.said, invoice.id, NewRef))
    /\ UNCHANGED nextInvoiceId

\* clearInvoices()
MockClearInvoices ==
    /\ mockLast.ops < MaxMockOps
    /\ invoices' = <<>>
    /\ nextInvoiceId' = 1
    /\ mockLast' = MockDone("clearInvoices", <<>>, 0, FALSE, FALSE, <<>>)
    /\ UNCHANGED heap

\* the uuids cancelInvoice is called with
MockUuids == {TestUuid(2), TestUuid(9)}

\* Array.from(this.invoices.values()).find(i => i.uuid === uuid): the stored
\* object with the uuid, 0 when there is none (a uuid belongs to one id, so
\* at most one stored object has it)
FindByUuid(uuid) ==
    LET found == { r \in 1..Len(heap) :
                     /\ \E id \in DOMAIN invoices : invoices[id] = r
                     /\ heap[r].uuid = uuid }
    IN  IF found = {} THEN 0 ELSE CHOOSE r \in found : TRUE

\* cancelInvoice(uuid): the stored invoice with the uuid becomes 'canceled'
\* in place, an unknown uuid raises
MockCancelInvoice ==
    /\ mockLast.ops < MaxMockOps
    /\ \E uuid \in MockUuids :
        LET ref == FindByUuid(uuid)
        IN  IF ref = 0
            THEN /\ mockLast' = MockDone("cancelInvoice", uuid, 0, TRUE, FALSE,
                                         mockLast.said)
                 /\ UNCHANGED heap
            ELSE /\ heap' = [heap EXCEPT ![ref].status = "canceled"]
                 /\ mockLast' = MockDone("cancelInvoice", uuid, ref, FALSE, FALSE,
                                         mockLast.said)
    /\ UNCHANGED <<invoices, nextInvoiceId>>

\* getInvoiceCount() on the map m
getInvoiceCount(m) == Cardinality(DOMAIN m)

\* setInvoiceStatus(invoiceId, status): changes the stored object in place
MockSetInvoiceStatus ==
    /\ mockLast.ops < MaxMockOps
    /\ \E id \in MockIds, status \in {"paid", "failed"} :
        /\ heap' = IF id \in DOMAIN invoices
                   THEN [heap EXCEPT ![invoices[id]].status = status]
                   ELSE heap
        /\ mockLast' = MockDone("setInvoiceStatus", id, 0, FALSE, FALSE,
                                mockLast.said)
    /\ UNCHANGED <<invoices, nextInvoiceId>>

(***************************************************************************)
(* State of the components a specification does not run.                   *)
(***************************************************************************)
ApiIdle ==
    /\ apiMethod = "none"
    /\ apiArg = "valid"
    /\ requests = <<>>
    /\ remoteDone = FALSE
    /\ remoteInvoices = 0
    /\ responseBody = NoBody
    /\ cachedPc = "none"

ConcIdle == calls = <<>> /\ overtaken = <<>>

MemIdle ==
    /\ now = 0
    /\ cache = <<>>
    /\ memLast = NoMemOp
    /\ memSets = <<>>

CachedIdle ==
    /\ cMethod = "none"
    /\ getters = <<>>
    /\ apiLog = <<>>
    /\ cacheMon = NoCacheEvents

MockIdle ==
    /\ invoices = <<>>
    /\ heap = <<>>
    /\ nextInvoiceId = 1
    /\ mockLast = NoMockOp

OtherIdle == MemIdle /\ CachedIdle /\ MockIdle

(***************************************************************************)
(* Specifications.                                                         *)
(***************************************************************************)
RetryIdle ==
    /\ retryOptions = <<>>
    /\ hasLogger = FALSE
    /\ pc = "idle"
    /\ attempt = 0
    /\ lastError = NoError
    /\ execCount = 0
    /\ history = <<>>
    /\ delays = <<>>
    /\ warnCalls = 0
    /\ outcome = NoOutcome

Init == RetryInit /\ SigIdle /\ WhIdle /\ ApiIdle /\ ConcIdle /\ OtherIdle

Next ==
    \/ StartAttempt /\ UNCHANGED <<sigVars, whVars, apiVars, concVars, otherVars>>
    \/ ExitLoop /\ UNCHANGED <<sigVars, whVars, apiVars, concVars, otherVars>>
    \/ OperationSucceeds /\ UNCHANGED <<sigVars, whVars, apiVars, concVars, otherVars>>
    \/ OperationFails /\ UNCHANGED <<sigVars, whVars, apiVars, concVars, otherVars>>
    \/ DelayElapses /\ UNCHANGED <<sigVars, whVars, apiVars, concVars, otherVars>>

\* one invocation of withRetry
Spec == Init /\ [][Next]_vars

\* one invocation whose operation() calls and delays all come to an end: an
\* awaited promise that settles lets the invocation take its next step
FairSpec == Spec /\ WF_vars(Next)

SigSpecInit == RetryIdle /\ SigInit /\ WhIdle /\ ApiIdle /\ ConcIdle /\ OtherIdle

SigNext ==
    \/ ReceiveSigned /\ UNCHANGED <<retryVars, whVars, apiVars, concVars, otherVars>>
    \/ ReceiveAltered /\ UNCHANGED <<retryVars, whVars, apiVars, concVars, otherVars>>
    \/ ReceiveExtended /\ UNCHANGED <<retryVars, whVars, apiVars, concVars, otherVars>>
    \/ ReceiveTruncated /\ UNCHANGED <<retryVars, whVars, apiVars, concVars, otherVars>>
    \/ ReceiveForged /\ UNCHANGED <<retryVars, whVars, apiVars, concVars, otherVars>>
    \/ ReceiveMissing /\ UNCHANGED <<retryVars, whVars, apiVars, concVars, otherVars>>
    \/ ReceiveMalformed /\ UNCHANGED <<retryVars, whVars, apiVars, concVars, otherVars>>
    \/ Verify /\ UNCHANGED <<retryVars, whVars, apiVars, concVars, otherVars>>

\* one webhook verification
SigSpec == SigSpecInit /\ [][SigNext]_vars

WebhookInit ==
    RetryIdle /\ WebhookArrives /\ WhIdle /\ ApiIdle /\ ConcIdle /\ OtherIdle

WebhookNext ==
    \/ ReceiveSigned /\ UNCHANGED <<retryVars, whVars, apiVars, concVars, otherVars>>
    \/ ReceiveForged /\ UNCHANGED <<retryVars, whVars, apiVars, concVars, otherVars>>
    \/ ReceiveMissing /\ UNCHANGED <<retryVars, whVars, apiVars, concVars, otherVars>>
    \/ Verify /\ UNCHANGED <<retryVars, whVars, apiVars, concVars, otherVars>>
    \/ RegisterHandler /\ UNCHANGED <<retryVars, sigVars, apiVars, concVars, otherVars>>
    \/ ProcessWebhook /\ UNCHANGED <<retryVars, sigVars, apiVars, concVars, otherVars>>
    \/ HandlerFulfils /\ UNCHANGED <<retryVars, sigVars, apiVars, concVars, otherVars>>
    \/ HandlerRejects /\ UNCHANGED <<retryVars, sigVars, apiVars, concVars, otherVars>>
    \/ ProcessResolves /\ UNCHANGED <<retryVars, sigVars, apiVars, concVars, otherVars>>

\* an application that receives a webhook and uses WebhookService: the
\* verification of the webhook, registrations, processWebhook calls and the
\* handler calls they make, up to their settling
WebhookSpec == WebhookInit /\ [][WebhookNext]_vars

ApiSpecInit == ApiInit /\ SigIdle /\ WhIdle /\ ConcIdle /\ OtherIdle

ApiNext ==
    \/ ApiStartAttempt /\ UNCHANGED <<sigVars, whVars, concVars, otherVars>>
    \/ RemoteProcesses /\ UNCHANGED <<retryVars, sigVars, whVars, concVars, otherVars>>
    \/ ApiResponds /\ UNCHANGED <<sigVars, whVars, concVars, otherVars>>
    \/ ApiClockAdvances /\ UNCHANGED <<sigVars, whVars, concVars, cachedVars, mockVars>>
    \/ ApiCachedStores /\ UNCHANGED <<sigVars, whVars, concVars, cachedVars, mockVars>>
    \/ ApiCachedReturns /\ UNCHANGED <<sigVars, whVars, concVars, otherVars>>
    \/ ApiCachedThrows /\ UNCHANGED <<sigVars, whVars, concVars, otherVars>>
    \/ ApiBodyMissing /\ UNCHANGED <<sigVars, whVars, concVars, otherVars>>
    \/ ApiBodyRejected /\ UNCHANGED <<sigVars, whVars, concVars, otherVars>>
    \/ ApiValidationThrows /\ UNCHANGED <<sigVars, whVars, concVars, otherVars>>
    \/ ApiRequestFails /\ UNCHANGED <<sigVars, whVars, concVars, otherVars>>
    \/ DelayElapses /\ UNCHANGED <<sigVars, whVars, apiVars, concVars, otherVars>>
    \/ ExitLoop /\ UNCHANGED <<sigVars, whVars, apiVars, concVars, otherVars>>

\* one call of an API method of the client
ApiSpec == ApiSpecInit /\ [][ApiNext]_vars

ConcSpecInit == RetryIdle /\ SigIdle /\ WhIdle /\ ApiIdle /\ ConcInit /\ OtherIdle

ConcNext ==
    \/ \E c \in CallIds : Invoke(c) /\ UNCHANGED <<retryVars, sigVars, whVars, apiVars, otherVars>>
    \/ \E c \in CallIds :
        CallStartAttempt(c) /\ UNCHANGED <<retryVars, sigVars, whVars, apiVars, otherVars>>
    \/ \E c \in CallIds :
        CallExitLoop(c) /\ UNCHANGED <<retryVars, sigVars, whVars, apiVars, otherVars>>
    \/ \E c \in CallIds :
        CallSucceeds(c) /\ UNCHANGED <<retryVars, sigVars, whVars, apiVars, otherVars>>
    \/ \E c \in CallIds :
        CallFails(c) /\ UNCHANGED <<retryVars, sigVars, whVars, apiVars, otherVars>>
    \/ \E c \in CallIds :
        CallDelayElapses(c) /\ UNCHANGED <<retryVars, sigVars, whVars, apiVars, otherVars>>

\* withRetry invocations running concurrently on one client
ConcSpec == ConcSpecInit /\ [][ConcNext]_vars

MemSpecInit ==
    /\ RetryIdle /\ SigIdle /\ WhIdle /\ ApiIdle /\ ConcIdle
    /\ MemInit /\ CachedIdle /\ MockIdle

MemNext ==
    \/ Tick /\ UNCHANGED <<retryVars, sigVars, whVars, apiVars, concVars,
                            cachedVars, mockVars>>
    \/ MemGet /\ UNCHANGED <<retryVars, sigVars, whVars, apiVars, concVars,
                              cachedVars, mockVars>>
    \/ MemSet /\ UNCHANGED <<retryVars, sigVars, whVars, apiVars, concVars,
                              cachedVars, mockVars>>
    \/ MemCleanup /\ UNCHANGED <<retryVars, sigVars, whVars, apiVars, concVars,
                                  cachedVars, mockVars>>
    \/ MemDelete /\ UNCHANGED <<retryVars, sigVars, whVars, apiVars, concVars,
                                 cachedVars, mockVars>>
    \/ MemClear /\ UNCHANGED <<retryVars, sigVars, whVars, apiVars, concVars,
                                cachedVars, mockVars>>
    \/ MemSize /\ UNCHANGED <<retryVars, sigVars, whVars, apiVars, concVars,
                               cachedVars, mockVars>>

\* a MemoryCache used directly
MemSpec == MemSpecInit /\ [][MemNext]_vars

CachedSpecInit ==
    /\ RetryIdle /\ SigIdle /\ WhIdle /\ ApiIdle /\ ConcIdle
    /\ MemIdle /\ CachedInit /\ MockIdle

CachedNext ==
    \/ CachedTick /\ UNCHANGED <<retryVars, sigVars, whVars, apiVars, concVars,
                                  cachedVars, mockVars>>
    \/ \E g \in GetterIds :
        CallCached(g) /\ UNCHANGED <<retryVars, sigVars, whVars, apiVars, concVars,
                                     mockVars>>
    \/ \E g \in GetterIds :
        CacheAnswered(g) /\ UNCHANGED <<retryVars, sigVars, whVars, apiVars,
                                        concVars, mockVars>>
    \/ \E g \in GetterIds :
        ApiReturns(g) /\ UNCHANGED <<retryVars, sigVars, whVars, apiVars, concVars,
                                     mockVars>>
    \/ \E g \in GetterIds :
        ApiThrows(g) /\ UNCHANGED <<retryVars, sigVars, whVars, apiVars, concVars,
                                    mockVars>>
    \/ \E g \in GetterIds :
        StoreFetched(g) /\ UNCHANGED <<retryVars, sigVars, whVars, apiVars,
                                       concVars, mockVars>>
    \/ \E g \in GetterIds :
        ReturnFetched(g) /\ UNCHANGED <<retryVars, sigVars, whVars, apiVars,
                                        concVars, mockVars>>
    \/ Invalidate /\ UNCHANGED <<retryVars, sigVars, whVars, apiVars, concVars,
                                  mockVars>>

\* calls of one cached method of a CachedCryptocloudClient
CachedSpec == CachedSpecInit /\ [][CachedNext]_vars

\* the caller of the cached method when its calls are made one after another
FirstCaller == CHOOSE g \in GetterIds : \A h \in GetterIds : g <= h

\* one caller's calls of a cached method of a CachedCryptocloudClient, each
\* awaited before the next, with invalidations and calls of the inherited
\* methods in between and during them
FrameNext ==
    \/ CachedTick /\ UNCHANGED <<retryVars, sigVars, whVars, apiVars, concVars,
                                  cachedVars, mockVars>>
    \/ CallCached(FirstCaller)
          /\ UNCHANGED <<retryVars, sigVars, whVars, apiVars, concVars, mockVars>>
    \/ CacheAnswered(FirstCaller)
          /\ UNCHANGED <<retryVars, sigVars, whVars, apiVars, concVars, mockVars>>
    \/ ApiReturns(FirstCaller)
          /\ UNCHANGED <<retryVars, sigVars, whVars, apiVars, concVars, mockVars>>
    \/ ApiThrows(FirstCaller)
          /\ UNCHANGED <<retryVars, sigVars, whVars, apiVars, concVars, mockVars>>
    \/ StoreFetched(FirstCaller)
          /\ UNCHANGED <<retryVars, sigVars, whVars, apiVars, concVars, mockVars>>
    \/ ReturnFetched(FirstCaller)
          /\ UNCHANGED <<retryVars, sigVars, whVars, apiVars, concVars, mockVars>>
    \/ Invalidate /\ UNCHANGED <<retryVars, sigVars, whVars, apiVars, concVars,
                                  mockVars>>
    \/ ClientCall /\ UNCHANGED <<retryVars, sigVars, whVars, apiVars, concVars,
                                  mockVars>>

FrameSpec == CachedSpecInit /\ [][FrameNext]_vars

MockSpecInit ==
    /\ RetryIdle /\ SigIdle /\ WhIdle /\ ApiIdle /\ ConcIdle
    /\ MemIdle /\ CachedIdle /\ MockInit

MockNext ==
    \/ MockCreateInvoice /\ UNCHANGED <<retryVars, sigVars, whVars, apiVars,
                                         concVars, memVars, cachedVars>>
    \/ MockGetInvoice /\ UNCHANGED <<retryVars, sigVars, whVars, apiVars,
                                      concVars, memVars, cachedVars>>
    \/ MockAddInvoice /\ UNCHANGED <<retryVars, sigVars, whVars, apiVars,
                                      concVars, memVars, cachedVars>>
    \/ MockClearInvoices /\ UNCHANGED <<retryVars, sigVars, whVars, apiVars,
                                         concVars, memVars, cachedVars>>
    \/ MockSetInvoiceStatus /\ UNCHANGED <<retryVars, sigVars, whVars, apiVars,
                                            concVars, memVars, cachedVars>>
    \/ MockCancelInvoice /\ UNCHANGED <<retryVars, sigVars, whVars, apiVars,
                                         concVars, memVars, cachedVars>>

\* a test that drives a MockCryptocloudClient
MockSpec == MockSpecInit /\ [][MockNext]_vars

ClassifySpecInit ==
    /\ RetryIdle /\ SigIdle /\ WhIdle /\ ApiIdle /\ ConcIdle
    /\ MemIdle /\ CachedIdle /\ ClassifyInit

ClassifyNext ==
    ClassifyInvoice /\ UNCHANGED <<retryVars, sigVars, whVars, apiVars, concVars,
                                   memVars, cachedVars>>

\* the three status tests of a client called on one invoice, in any order
ClassifySpec == ClassifySpecInit /\ [][ClassifyNext]_vars

DispatchInit == RetryIdle /\ SigIdle /\ WhIdle /\ ApiIdle /\ ConcIdle /\ OtherIdle

DispatchNext ==
    \/ RegisterHandler /\ UNCHANGED <<retryVars, sigVars, apiVars, concVars, otherVars>>
    \/ ProcessWebhook /\ UNCHANGED <<retryVars, sigVars, apiVars, concVars, otherVars>>
    \/ HandlerFulfils /\ UNCHANGED <<retryVars, sigVars, apiVars, concVars, otherVars>>
    \/ HandlerRejects /\ UNCHANGED <<retryVars, sigVars, apiVars, concVars, otherVars>>
    \/ ProcessResolves /\ UNCHANGED <<retryVars, sigVars, apiVars, concVars, otherVars>>

\* a WebhookService: registrations, processWebhook calls and the handler
\* calls they make, up to their settling
DispatchSpec == DispatchInit /\ [][DispatchNext]_vars

(***************************************************************************)
(* Vocabulary of the claims about the retry executor.                      *)
(***************************************************************************)
\* a Classified Error with status 400, 401 or 403
ClientFault(e) == e.cls = "CryptocloudError" /\ e.statusCode \in {400, 401, 403}

\* attempt k has finished and failed with a transient error
FailedTransiently(k) ==
    /\ k \in 1..Len(history)
    /\ ~history[k].ok
    /\ ~ClientFault(history[k].error)

\* every attempt made so far has finished and failed transiently
AllFailedTransiently == \A k \in 1..Len(history) : FailedTransiently(k)

RECURSIVE Geometric(_, _, _)
\* d * m^i
Geometric(d, m, i) == IF i = 0 THEN d ELSE m * Geometric(d, m, i - 1)

Finished == pc \in {"returned", "thrown"}

\* C1: an operation that fails transiently on every attempt is executed
\* exactly maxRetries + 1 times, and withRetry throws the error object of the
\* last attempt.
C1_ExhaustionThrowsLastError ==
    (pc = "thrown" /\ AllFailedTransiently) =>
        /\ execCount = options.maxRetries + 1
        /\ Len(history) = options.maxRetries + 1
        /\ outcome = [kind |-> "thrown", error |-> history[Len(history)].error]
        /\ outcome.error.seq = options.maxRetries + 1

C1_Witness ==
    /\ pc = "thrown"
    /\ AllFailedTransiently
    /\ options.maxRetries = 2
    /\ execCount = 3
    /\ history[1].error.statusCode = 500
    /\ history[3].error.statusCode = 404
    /\ outcome.error.seq = 3

\* C2: when the first attempt fails with a Classified Error of status 400,
\* 401 or 403, the operation is executed once, no delay is taken and
\* withRetry throws that very error, whatever maxRetries is.
C2_ClientFaultNotRetried ==
    (Len(history) >= 1 /\ ~history[1].ok /\ ClientFault(history[1].error)) =>
        /\ execCount = 1
        /\ Len(history) = 1
        /\ delays = <<>>
        /\ pc = "thrown"
        /\ outcome = [kind |-> "thrown", error |-> history[1].error]

C2_Witness ==
    /\ pc = "thrown"
    /\ options.maxRetries = 3
    /\ Len(history) = 1
    /\ history[1].error.cls = "CryptocloudError"
    /\ history[1].error.statusCode = 403
    /\ execCount = 1
    /\ delays = <<>>

\* C3: when attempts 1..k-1 fail transiently and attempt k succeeds
\* (k <= maxRetries + 1), withRetry returns the result of attempt k and the
\* operation is not executed again.
C3_SuccessReturnsThatResult ==
    \A k \in 1..Len(history) :
        history[k].ok =>
            /\ \A j \in 1..(k - 1) : FailedTransiently(j)
            /\ k <= options.maxRetries + 1
            /\ Len(history) = k
            /\ execCount = k
            /\ pc = "returned"
            /\ outcome = [kind |-> "returned", result |-> history[k].result]
            /\ outcome.result.seq = k

C3_Witness ==
    /\ pc = "returned"
    /\ Len(history) = 3
    /\ FailedTransiently(1)
    /\ FailedTransiently(2)
    /\ history[3].ok
    /\ outcome.result = history[3].result
    /\ execCount = 3

\* C4: the delay taken after the failed attempt with zero-based index i, before
\* attempt i + 1, is delayMs * backoffMultiplier^i, for every i < maxRetries:
\* one such delay separates every two consecutive attempts.
C4_DelayIsGeometric ==
    /\ \A j \in 1..Len(delays) :
        /\ j - 1 < options.maxRetries
        /\ delays[j] = Geometric(options.delayMs, options.backoffMultiplier, j - 1)
    /\ execCount >= 1 => Len(delays) >= execCount - 1
    /\ Len(delays) <= execCount

C4_Witness ==
    /\ options.delayMs = 2
    /\ options.backoffMultiplier = 3
    /\ delays = <<2, 6, 18>>
    /\ execCount = 4

\* C5: in every state of an invocation, whatever the attempts produce, the
\* operation has been executed at most maxRetries + 1 times.
C5_AttemptsBounded == execCount <= options.maxRetries + 1

C5_Witness ==
    /\ options.maxRetries = 2
    /\ execCount = 3
    /\ Len(history) = 3
    /\ history[3].ok

\* C6: a failure that is not a Classified Error with status 400, 401 or 403
\* (a 5xx or other 4xx status, a failure with no status code, an error of
\* another class) never ends the invocation while attempts remain: a delay is
\* scheduled and the operation is executed again; only the failure of attempt
\* maxRetries + 1 is thrown.
C6_OtherFailuresRetried ==
    \A k \in 1..Len(history) :
        FailedTransiently(k) =>
            IF k <= options.maxRetries
            THEN /\ Len(delays) >= k
                 /\ (k = Len(history) => pc \in {"delay", "loop", "inflight"})
                 /\ (pc = "loop" /\ k = Len(history) => ENABLED StartAttempt)
            ELSE /\ k = Len(history)
                 /\ (Finished => outcome = [kind |-> "thrown", error |-> history[k].error])

C6_Witness ==
    /\ Len(history) = 4
    /\ history[1].error.statusCode = Undefined
    /\ history[1].error.cls = "CryptocloudError"
    /\ history[2].error.statusCode = 404
    /\ history[3].error.cls = "Error"
    /\ history[3].error.statusCode = 401
    /\ history[4].ok
    /\ execCount = 4

\* the delays grow strictly
StrictlyIncreasing(seq) == \A i \in 1..(Len(seq) - 1) : seq[i] < seq[i + 1]

\* C7: with no policy field supplied the policy is maxRetries 3, delay 1000,
\* multiplier 2, so an operation that always fails transiently is executed 4
\* times with delays 1000, 2000, 4000; for any multiplier > 1 the delays of an
\* invocation are strictly increasing.
C7_DefaultsAndIncreasingDelays ==
    /\ DOMAIN retryOptions = {} =>
        /\ options = [maxRetries |-> 3, delayMs |-> 1000, backoffMultiplier |-> 2]
        /\ (pc = "thrown" /\ AllFailedTransiently) =>
                execCount = 4 /\ delays = <<1000, 2000, 4000>>
    /\ options.backoffMultiplier > 1 => StrictlyIncreasing(delays)

C7_Witness ==
    /\ DOMAIN retryOptions = {}
    /\ pc = "thrown"
    /\ AllFailedTransiently
    /\ execCount = 4
    /\ delays = <<1000, 2000, 4000>>

(***************************************************************************)
(* Claims about the signature verifier (checked under SigSpec).            *)
(***************************************************************************)
\* the signature computeHmac gives for the webhook at hand
ExpectedSignature == computeHmac(sigSecret, sigBody)

\* s and t have the same length and differ in exactly one character
DiffersInOneChar(s, t) ==
    /\ Len(s) = Len(t)
    /\ Cardinality({i \in 1..Len(s) : s[i] # t[i]}) = 1

\* C8: for every secret and body, verifySignature(secret, body,
\* computeHmac(secret, body)) returns true.
C8_RoundTrip ==
    (sigPc = "verified" /\ sigProvided = StringSignature(ExpectedSignature)) =>
        sigResult = TRUE

C8_Witness ==
    /\ sigPc = "verified"
    /\ sigSecret # <<>>
    /\ sigBody # <<>>
    /\ sigProvided = StringSignature(ExpectedSignature)
    /\ hmacCalls = 1
    /\ sigResult = TRUE

\* C9: verifySignature returns false for every provided signature that is
\* the computed one with one character changed to any other character (a
\* letter of the other case and a non-hex character included).
C9_OneCharChangeRejected ==
    (/\ sigPc = "verified"
     /\ sigProvided.defined
     /\ DiffersInOneChar(sigProvided.text, ExpectedSignature)) =>
        sigResult = FALSE

\* C10: verifySignature returns true only if the provided signature has the
\* length of the expected hex digest (and equal bytes): a provided signature
\* of another length, such as the digest followed by extra characters, is
\* rejected.
C10_AcceptedOnlyIfSameLength ==
    (sigPc = "verified" /\ sigResult = TRUE) =>
        /\ Len(sigProvided.text) = Len(ExpectedSignature)
        /\ HexDecode(sigProvided.text) = HexDecode(ExpectedSignature)

\* C11: when no signature is provided (undefined, or the empty string),
\* verifySignature returns false and computeHmac is not called.
C11_MissingSignatureSkipsHash ==
    (sigPc = "verified" /\ (~sigProvided.defined \/ Len(sigProvided.text) = 0)) =>
        /\ sigResult = FALSE
        /\ ~sigRaised
        /\ hmacCalls = 0

C11_Witness ==
    /\ sigPc = "verified"
    /\ sigProvided.defined
    /\ Len(sigProvided.text) = 0
    /\ sigResult = FALSE
    /\ hmacCalls = 0

\* C12: verifySignature never raises, for any secret, body and provided
\* signature string (malformed, odd-length and non-hex ones included): it
\* returns true or false.
C12_NeverRaises ==
    sigPc = "verified" => (~sigRaised /\ sigResult \in BOOLEAN)

C12_Witness ==
    /\ sigPc = "verified"
    /\ sigProvided.defined
    /\ Len(sigProvided.text) = 3
    /\ sigProvided.text[3] = "z"
    /\ hmacCalls = 1
    /\ ~sigRaised
    /\ sigResult = FALSE

\* C14 as stated: during a retry sequence withRetry makes no logger call, and
\* what it throws is the error the operation raised.
C14_NoLoggerCall ==
    /\ warnCalls = 0
    /\ (pc = "thrown" /\ Len(history) > 0) =>
            outcome.error = history[Len(history)].error

\* C14 amended: withRetry never masks or transforms an error or a result (it
\* throws the error object the last attempt raised, or returns the result of
\* the successful attempt), and its only logger calls are one logger.warn
\* before each inter-attempt delay when the client has a logger; without a
\* logger it makes none.
C14_WarnsOncePerDelayErrorsUntouched ==
    /\ warnCalls = (IF hasLogger THEN Len(delays) ELSE 0)
    /\ (pc = "thrown" /\ Len(history) > 0) =>
            outcome = [kind |-> "thrown", error |-> history[Len(history)].error]
    /\ pc = "returned" =>
            outcome = [kind |-> "returned", result |-> history[Len(history)].result]

C14_Witness ==
    /\ hasLogger
    /\ pc = "thrown"
    /\ Len(history) = 3
    /\ warnCalls = 2
    /\ delays = <<1, 2>>
    /\ outcome.error = history[3].error

\* the attempt k failed because the request in flight was cancelled
Cancelled(k) ==
    /\ k \in 1..Len(history)
    /\ ~history[k].ok
    /\ history[k].error.message = "canceled"

\* C17: when the network call of an attempt is cancelled, the retry loop
\* aborts at once: the operation is not executed again, no delay is taken and
\* the cancellation error is thrown to the caller.
C17_CancellationAborts ==
    \A k \in 1..Len(history) :
        Cancelled(k) =>
            /\ Len(history) = k
            /\ execCount = k
            /\ Len(delays) = k - 1
            /\ pc = "thrown"
            /\ outcome = [kind |-> "thrown", error |-> history[k].error]

\* C13: no WebhookHandler method runs for a webhook unless the verifier has
\* been run on its body and signature and has returned true; processWebhook
\* does not dispatch an unverified payload.
C13_HandlersOnlyAfterVerification ==
    Len(handlerCalls) > 0 => (sigPc = "verified" /\ sigResult = TRUE)

(***************************************************************************)
(* Claims about the API methods.                                           *)
(***************************************************************************)
\* the methods whose request changes the state of the gateway
NonIdempotentMethods == {"createInvoice", "cancelInvoice", "createStaticWallet"}

\* C18: one call of a non-idempotent method sends its POST request once per
\* attempt, the same request each time with nothing that tells a resend from
\* the first send, up to maxRetries + 1 = 4 times, and exactly 4 times when
\* every attempt fails transiently; the gateway acts on each request it
\* receives, so it can create several invoices for one createInvoice call.
C18_RetriedCallRepeatsRemoteCall ==
    apiMethod \in NonIdempotentMethods =>
        /\ Len(requests) = execCount
        /\ Len(requests) <= 4
        /\ \A i \in 1..Len(requests) :
            requests[i].verb = "POST" /\ requests[i] = requests[1]
        /\ remoteInvoices <= Len(requests)
        /\ (pc = "thrown" /\ AllFailedTransiently) => Len(requests) = 4

\* one createInvoice call has thrown after the gateway created four invoices
C18_Witness ==
    /\ apiMethod = "createInvoice"
    /\ pc = "thrown"
    /\ Len(requests) = 4
    /\ remoteInvoices = 4

\* C19: every request of an API method is sent by an attempt of a retry
\* sequence, and a transient failure of any method's attempt, while retries
\* remain, is followed by the inter-attempt delay and another attempt.
C19_EveryCallGoesThroughRetry ==
    /\ apiMethod \in ApiMethods
    /\ pc # "idle"
    /\ Len(requests) <= execCount
    /\ \A k \in 1..Len(history) :
        (FailedTransiently(k) /\ k <= 3) =>
            \/ execCount > k
            \/ (execCount = k /\ pc \in {"delay", "loop"} /\ Len(delays) = k)

\* a cached variant's request failed transiently once and was sent again
C19_Witness ==
    /\ apiMethod = "getBalanceWithCache"
    /\ pc = "returned"
    /\ Len(history) = 2
    /\ FailedTransiently(1)
    /\ Len(requests) = 2
    /\ Len(delays) = 1

\* C33: a getInvoiceInfo call whose uuids is not an array, is empty or has
\* more than 100 entries sends no HTTP request, executes its operation once,
\* makes no backoff delay, and is over, with the error thrown, as soon as
\* that execution has failed.
C33_InvalidUuidsFailWithoutRetry ==
    (apiMethod = "getInvoiceInfo" /\ apiArg # "valid") =>
        /\ requests = <<>>
        /\ execCount <= 1
        /\ delays = <<>>
        /\ Len(history) = 1 => pc = "thrown"

\* C34: when the body of a 2xx response has reached the getInvoiceInfo
\* operation, the call has returned, and returned data.result, exactly when
\* the body's status is 'success'; for any other body the operation has
\* raised a CryptocloudError without status code whose code is
\* 'MAX_UUIDS_EXCEEDED' when validate_error is 'Max 100 uuids' and
\* 'API_ERROR' otherwise, and nothing has been returned.
C34_ResultOnlyOnSuccess ==
    (apiMethod = "getInvoiceInfo" /\ responseBody # NoBody) =>
        LET last == history[Len(history)]
        IN  /\ Len(history) = execCount
            /\ IF responseBody.status = "success"
               THEN /\ last.ok
                    /\ last.result.value = responseBody.result
                    /\ outcome = [kind |-> "returned", result |-> last.result]
               ELSE /\ ~last.ok
                    /\ last.error.cls = "CryptocloudError"
                    /\ last.error.statusCode = Undefined
                    /\ last.error.code =
                          IF responseBody.validateError = "Max 100 uuids"
                          THEN "MAX_UUIDS_EXCEEDED" ELSE "API_ERROR"
                    /\ outcome.kind # "returned"
                    /\ \A k \in 1..Len(history) : ~history[k].ok

\* a body without status and with validate_error 'Max 100 uuids' was
\* received and the call has thrown the error made from it
C34_Witness ==
    /\ apiMethod = "getInvoiceInfo"
    /\ responseBody.status = ""
    /\ responseBody.validateError = "Max 100 uuids"
    /\ pc = "thrown"
    /\ outcome.kind = "thrown"
    /\ outcome.error.code = "MAX_UUIDS_EXCEEDED"
    /\ outcome.error.statusCode = Undefined

(***************************************************************************)
(* Claims about concurrent invocations.                                    *)
(***************************************************************************)
\* the attempts of invocation c that failed transiently while retries remained
RetriedAttempts(c) ==
    { i \in 1..Len(calls[c].history) :
        /\ ~calls[c].history[i].ok
        /\ ~ClientFault(calls[c].history[i].error)
        /\ i <= calls[c].retryOptions.maxRetries }

\* the attempts, the delays and the outcome of invocation c are those its own
\* argument and the outcomes of its own operation determine
OwnCourse(c) ==
    LET k == calls[c]
        h == k.history
        n == k.retryOptions.maxRetries
        last == h[Len(h)]
    IN  /\ k.execCount = Len(h) + (IF k.pc = "inflight" THEN 1 ELSE 0)
        /\ Len(h) <= n + 1
        /\ k.attempt = Cardinality(RetriedAttempts(c))
                       - (IF k.pc = "delay" THEN 1 ELSE 0)
                       + (IF k.pc \in {"loop", "thrown"} /\ Len(h) = n + 1
                             /\ ~last.ok /\ ~ClientFault(last.error)
                          THEN 1 ELSE 0)
        /\ k.delays = [i \in 1..Cardinality(RetriedAttempts(c)) |->
                          Geometric(k.retryOptions.delayMs, 2, i - 1)]
        /\ k.pc = "returned" =>
              last.ok /\ k.outcome = [kind |-> "returned", result |-> last.result]
        /\ k.pc = "thrown" =>
              /\ ~last.ok
              /\ k.outcome = [kind |-> "thrown", error |-> last.error]
              /\ ClientFault(last.error) \/ Len(h) = n + 1
        /\ k.pc \notin {"returned", "thrown"} =>
              /\ k.outcome = NoOutcome
              /\ \A i \in 1..Len(h) : ~h[i].ok /\ ~ClientFault(h[i].error)

\* C15: under every interleaving of concurrent invocations, the attempt
\* counter, the number of attempts, the delays and the outcome of each
\* invocation are determined by its own argument and the outcomes of its own
\* operation, and a step of one invocation changes nothing of another.
C15_InvocationsIndependent ==
    /\ [](\A c \in CallIds : OwnCourse(c))
    /\ [][\E c \in CallIds : \A d \in CallIds \ {c} : calls'[d] = calls[d]]_vars

\* two invocations have interleaved and ended differently: the first threw
\* after two attempts and one delay, the second returned at its first attempt,
\* made while the first was in its delay
C15_Witness ==
    /\ calls[1].pc = "thrown"
    /\ calls[1].execCount = 2
    /\ Len(calls[1].delays) = 1
    /\ calls[2].pc = "returned"
    /\ calls[2].execCount = 1
    /\ overtaken[1] = {}
    /\ calls[2].retryOptions.maxRetries = 1

\* C16: while an invocation is suspended in its inter-attempt delay, every
\* other invocation that has not finished can take its next step.
C16_DelayDoesNotBlock ==
    \A c \in CallIds : \A d \in CallIds \ {c} :
        (calls[c].pc = "delay" /\ calls[d].pc \notin {"returned", "thrown"})
            => ENABLED CallStep(d)

\* the second invocation was invoked, made two attempts with a delay between
\* them and returned, all during one delay of the first
C16_Witness ==
    /\ calls[1].pc = "delay"
    /\ 2 \in overtaken[1]
    /\ calls[2].pc = "returned"
    /\ calls[2].execCount = 2
    /\ Len(calls[2].delays) = 1

(***************************************************************************)
(* Claims about the cache.                                                 *)
(***************************************************************************)
\* the key was set at time t with ttl, and the time a is after t + ttl
ExpiredAt(key, a) == a > memSets[key].at + memSets[key].ttl

\* C27: an entry set at time t with ttl, and not deleted or cleared since,
\* is returned by get at every time <= t + ttl and not returned at any time
\* > t + ttl; a get of an expired entry removes it and nothing else; a get
\* of a key never set, or deleted or cleared since its set, returns null;
\* cleanup removes exactly the entries expired at that moment and leaves
\* the others as they were; size() counts every stored entry, expired or
\* not.
C27_MemoryCacheExpiry ==
    /\ memLast.op = "get" =>
        IF memLast.key \in DOMAIN memSets
        THEN IF ExpiredAt(memLast.key, memLast.at)
             THEN /\ memLast.result = Null
                  /\ DOMAIN cache = DOMAIN memLast.before \ {memLast.key}
                  /\ \A k \in DOMAIN cache : cache[k] = memLast.before[k]
             ELSE /\ memLast.result = memSets[memLast.key].value
                  /\ memLast.key \in DOMAIN cache
                  /\ DOMAIN cache = DOMAIN memLast.before
                  /\ \A k \in DOMAIN cache : cache[k] = memLast.before[k]
        ELSE /\ memLast.result = Null
             /\ DOMAIN cache = DOMAIN memLast.before
             /\ \A k \in DOMAIN cache : cache[k] = memLast.before[k]
    /\ memLast.op = "cleanup" =>
        /\ DOMAIN cache =
             { k \in DOMAIN memLast.before : ~ExpiredAt(k, memLast.at) }
        /\ \A k \in DOMAIN cache : cache[k] = memLast.before[k]
    /\ memLast.op = "size" =>
        /\ memLast.size = Cardinality(DOMAIN memLast.before)
        /\ DOMAIN cache = DOMAIN memLast.before
        /\ \A k \in DOMAIN cache : cache[k] = memLast.before[k]

\* a get made exactly ttl after the set returned the value, while the other
\* key's entry had expired and was still stored
C27_Witness ==
    /\ memLast.op = "get"
    /\ memLast.key \in DOMAIN memSets
    /\ memSets[memLast.key].ttl > 0
    /\ memLast.at = memSets[memLast.key].at + memSets[memLast.key].ttl
    /\ memLast.result = memSets[memLast.key].value
    /\ \E k \in DOMAIN cache : k # memLast.key /\ ExpiredAt(k, now)

\* the ttl the cached method is said to have
SaidTtl(m) ==
    CASE m = "getInvoiceWithCache" -> 300000
      [] m = "getBalanceWithCache" -> 60000
      [] OTHER -> 300000

\* caller g calls the cached method in this step
Calls(g) == getters[g].pc \in {"idle", "done"} /\ getters'[g].pc = "gotCache"

\* C21: once a call of a cached method has stored what it fetched, and until
\* the entry is invalidated, a call made at most the method's ttl (invoice
\* 300000 ms, balance 60000 ms, statistics 300000 ms) after the store gets
\* the stored value from the cache and returns it without calling the API,
\* and a call made later than that gets nothing from the cache and calls the
\* API.
C21_CachedForTtl ==
    [][\A g \in GetterIds :
        /\ (Calls(g) /\ cacheMon.store.at >= 0) =>
              IF now <= cacheMon.store.at + SaidTtl(cMethod)
              THEN getters'[g].cached = cacheMon.store.value
              ELSE getters'[g].cached = Null
        /\ (getters[g].pc = "gotCache" /\ getters'[g].pc # "gotCache") =>
              IF getters[g].cached # Null
              THEN /\ getters'[g].pc = "done"
                   /\ getters'[g].result = getters[g].cached
                   /\ ~getters'[g].requested
                   /\ apiLog' = apiLog
              ELSE /\ getters'[g].pc = "fetching"
                   /\ Len(apiLog') = Len(apiLog) + 1
      ]_vars

\* a call made exactly one ttl after the store has returned the stored value
\* and the API has been called once in all
C21_Witness ==
    /\ cacheMon.store.at >= 0
    /\ cacheMon.hitAt = cacheMon.store.at + SaidTtl(cMethod)
    /\ Len(apiLog) = 1
    /\ \E g \in GetterIds :
        /\ getters[g].pc = "done"
        /\ ~getters[g].requested
        /\ getters[g].result = cacheMon.store.value

\* C26: a call of the cached method made after an invalidation of its key
\* does not get from the cache, and so does not return, data that had been
\* fetched before the invalidation.
C26_NoStaleDataAfterInvalidation ==
    [][\A g \in GetterIds :
        Calls(g) => getters'[g].cached.req \notin cacheMon.stale]_vars

\* C30: as long as no fetch has failed and nothing has been invalidated, any
\* two API calls made by calls of the cached method are more than one ttl
\* apart.
C30_OneRequestPerTtlWindow ==
    (cacheMon.invalidations = 0 /\ cacheMon.failures = 0) =>
        \A i, j \in 1..Len(apiLog) :
            i < j => apiLog[j].at > apiLog[i].at + SaidTtl(cMethod)

\* C31: when the API call of a cached method fails, the cached method
\* rejects without a result and the cache is left exactly as it was; a call
\* made after a failure, while the cache holds no entry stored by another
\* call, gets nothing from the cache, and a call that got nothing from the
\* cache issues a new API request.
C31_FailureLeavesCacheUnchanged ==
    [][\A g \in GetterIds :
        /\ (getters[g].pc = "fetching" /\ getters'[g].pc = "done") =>
              /\ getters'[g].threw
              /\ getters'[g].result = Null
              /\ cache' = cache
              /\ cacheMon'.store = cacheMon.store
              /\ cacheMon'.failures = cacheMon.failures + 1
        /\ (Calls(g) /\ cacheMon.failures > 0 /\ cacheMon.store = NoStore) =>
              getters'[g].cached = Null
        /\ (getters[g].pc = "gotCache" /\ getters[g].cached = Null
                /\ getters'[g].pc # "gotCache") =>
              /\ getters'[g].pc = "fetching"
              /\ apiLog' = Append(apiLog, [key |-> CacheKey(cMethod), at |-> now])
      ]_vars

\* the only caller's first call failed, nothing is in the cache, and its
\* second call has issued the second API request
C31_Witness ==
    /\ cacheMon.failures = 1
    /\ cacheMon.invalidations = 0
    /\ CacheKey(cMethod) \notin DOMAIN cache
    /\ Len(apiLog) = 2
    /\ \E g \in GetterIds :
        /\ getters[g].pc = "fetching"
        /\ getters[g].req = 2
        /\ \A h \in GetterIds \ {g} : getters[h] = IdleGetter

\* C32: a call of an inherited client method (createInvoice, getInvoice,
\* cancelInvoice) leaves the cache unchanged, and the cache changes only in
\* a cached getter's read of an expired entry, in a cached getter's store
\* after a miss, and in an invalidation or clearCache.
C32_CacheFrame ==
    [][/\ (cacheMon'.clientCalls # cacheMon.clientCalls) => cache' = cache
       /\ (cache' # cache) =>
            \/ \E g \in GetterIds :
                  /\ Calls(g)
                  /\ CacheKey(cMethod) \in DOMAIN cache
                  /\ now > cache[CacheKey(cMethod)].expires
                  /\ cache' = Without(cache, CacheKey(cMethod))
            \/ \E g \in GetterIds :
                  /\ getters[g].pc = "fetched"
                  /\ getters[g].cached = Null
                  /\ getters'[g].pc = "stored"
            \/ cacheMon'.invalidations = cacheMon.invalidations + 1
      ]_vars

\* getInvoiceWithCache stored the invoice, cancelInvoice was then called, and
\* a later getInvoiceWithCache returned the invoice stored before the
\* cancellation without calling the API
C32_Witness ==
    /\ cMethod = "getInvoiceWithCache"
    /\ cacheMon.store.at >= 0
    /\ cacheMon.gets = 2
    /\ Len(apiLog) = 1
    /\ cacheMon.lastClient.method = "cancelInvoice"
    /\ cacheMon.lastClient.gets = 1
    /\ cacheMon.lastClient.stored
    /\ \E g \in GetterIds :
        /\ getters[g].pc = "done"
        /\ ~getters[g].requested
        /\ getters[g].result = cacheMon.store.value

(***************************************************************************)
(* Claims about WebhookService.                                            *)
(***************************************************************************)
\* the handler method said to be called for a status, "none" when none is
SaidMethod(status) ==
    CASE status = "paid" -> "onInvoicePaid"
      [] status = "failed" -> "onInvoiceFailed"
      [] status = "canceled" -> "onInvoiceCanceled"
      [] status = "expired" -> "onInvoiceExpired"
      [] status = "processing" -> "onInvoiceProcessing"
      [] OTHER -> "none"

\* the handler calls made by the last processWebhook call
CallsOfRun == SubSeq(handlerCalls, whRun.base + 1, Len(handlerCalls))

\* C22: processWebhook(payload) calls one method on each registration made
\* for payload.event, in the order of registration, and on nothing else; the
\* method is the one of payload.status, and for pending, created, overpaid or
\* any other status no method is called.
C22_DispatchByEventAndStatus ==
    whRun.pc # "idle" =>
        IF SaidMethod(whRun.payload.status) = "none"
        THEN CallsOfRun = <<>>
        ELSE /\ Len(CallsOfRun) = Len(whRun.registered)
             /\ \A i \in 1..Len(CallsOfRun) :
                 /\ CallsOfRun[i].handler = whRun.registered[i]
                 /\ CallsOfRun[i].method = SaidMethod(whRun.payload.status)
                 /\ CallsOfRun[i].event = whRun.payload.event

\* h1 is registered for invoice.paid, h2 for invoice.failed only, and a paid
\* invoice.paid payload has called onInvoicePaid on h1 alone
C22_Witness ==
    /\ whRun.pc = "resolved"
    /\ whRun.payload = [event |-> "invoice.paid", status |-> "paid"]
    /\ whRun.registered = <<"h1">>
    /\ handlers["invoice.failed"] = <<"h2">>
    /\ handlerCalls = <<[handler |-> "h1", method |-> "onInvoicePaid",
                         event |-> "invoice.paid"]>>

\* C25: processWebhook never rejects because of a handler, a failing handler
\* call leaves every registration of the event called, and processWebhook
\* resolves only when every handler call has settled.
C25_HandlerFailuresIsolated ==
    /\ whRun.pc # "rejected"
    /\ whRun.pc = "resolved" => whRun.pending = {}
    /\ (whRun.pc # "idle" /\ SaidMethod(whRun.payload.status) # "none") =>
          Len(CallsOfRun) = Len(whRun.registered)
    /\ whRun.errors \cap whRun.pending = {}

\* two handlers were called, the first one failed, and processWebhook resolved
C25_Witness ==
    /\ whRun.pc = "resolved"
    /\ Len(CallsOfRun) = 2
    /\ whRun.errors = {whRun.base + 1}

(***************************************************************************)
(* Claims about the status tests (checked under ClassifySpec).             *)
(***************************************************************************)
\* the tests that have answered true for the invoice
AnsweredTrue == { c \in mockLast.called : mockLast.answers[c] }

\* C35: for an invoice whose status is a value of InvoiceStatus exactly one
\* of isInvoicePaid, isInvoiceFailed and isInvoicePending returns true, and
\* for a status in none of the three lists all three return false.
C35_StatusPartition ==
    LET status == heap[Len(heap)].status
    IN  /\ Cardinality(AnsweredTrue) <= 1
        /\ (mockLast.called = Classifiers /\ status \in InvoiceStatus) =>
              Cardinality(AnsweredTrue) = 1
        /\ status \notin {"paid", "success", "completed", "succeeded", "overpaid",
                           "error", "failed", "canceled", "expired",
                           "pending", "processing", "created"} =>
              AnsweredTrue = {}

\* the three tests have been called on a 'created' invoice and only
\* isInvoicePending has returned true
C35_Witness ==
    /\ heap[Len(heap)].status = "created"
    /\ mockLast.called = Classifiers
    /\ AnsweredTrue = {"isInvoicePending"}

(***************************************************************************)
(* Claims about MockCryptocloudClient.                                     *)
(***************************************************************************)
\* C23: createInvoice returns an invoice with the amount and currency of the
\* request and status 'pending' and stores it; a getInvoice that follows it
\* with the returned id returns that same invoice; the mock sends no HTTP
\* request and enters no retry sequence.
C23_MockCreateThenGet ==
    /\ mockLast.op = "createInvoice" =>
        /\ ~mockLast.raised
        /\ heap[mockLast.result].amount = mockLast.arg.amount
        /\ heap[mockLast.result].currency = mockLast.arg.currency
        /\ heap[mockLast.result].status = "pending"
        /\ heap[mockLast.result].id \in DOMAIN invoices
        /\ invoices[heap[mockLast.result].id] = mockLast.result
    /\ (/\ mockLast.op = "getInvoice"
        /\ mockLast.prevOp = "createInvoice"
        /\ mockLast.arg = heap[mockLast.prevResult].id) =>
            ~mockLast.raised /\ mockLast.result = mockLast.prevResult
    /\ requests = <<>>
    /\ execCount = 0
    /\ pc = "idle"

\* the second invoice was created and then read back by its id
C23_Witness ==
    /\ mockLast.op = "getInvoice"
    /\ mockLast.prevOp = "createInvoice"
    /\ mockLast.arg = TestInvoiceId(2)
    /\ mockLast.result = mockLast.prevResult
    /\ heap[mockLast.result].amount = 250

\* C24: getInvoice(id) returns the invoice object last stored under id by
\* addInvoice or createInvoice since the last clearInvoices, and
\* isInvoicePaid is true for it when its status is 'paid'; for an id with no
\* such invoice it raises and leaves the store as it was.
C24_MockGetReturnsStored ==
    mockLast.op = "getInvoice" =>
        /\ invoices = mockLast.before
        /\ IF mockLast.arg \in DOMAIN mockLast.said
           THEN /\ ~mockLast.raised
                /\ mockLast.result = mockLast.said[mockLast.arg]
                /\ heap[mockLast.result].status = "paid" => mockLast.paid
           ELSE mockLast.raised

\* a paid invoice was added under an id that createInvoice had used, and
\* getInvoice returned the added one, which is paid
C24_Witness ==
    /\ mockLast.op = "getInvoice"
    /\ mockLast.prevOp = "addInvoice"
    /\ mockLast.arg = TestInvoiceId(1)
    /\ mockLast.result = mockLast.prevResult
    /\ mockLast.result = 2
    /\ mockLast.paid

(***************************************************************************)
(* Further claims about the retry executor.                                *)
(***************************************************************************)
\* C28: a delay is taken only after an attempt that failed transiently and
\* is always followed by another attempt: an invocation that is over has made
\* one delay fewer than attempts, one that ends by exhaustion has made
\* maxRetries delays and maxRetries + 1 attempts, and with maxRetries = 0 the
\* operation is executed once with no delay.
C28_DelaysOnlyBetweenAttempts ==
    /\ Len(delays) <= execCount
    /\ pc = "delay" =>
        /\ Len(delays) = execCount
        /\ FailedTransiently(execCount)
        /\ execCount <= options.maxRetries
    /\ Finished => Len(delays) = execCount - 1
    /\ (pc = "thrown" /\ AllFailedTransiently) =>
        /\ Len(delays) = options.maxRetries
        /\ execCount = options.maxRetries + 1
    /\ options.maxRetries = 0 =>
        /\ delays = <<>>
        /\ execCount <= 1
        /\ Finished => execCount = 1

\* with maxRetries = 0 the only attempt failed transiently and the
\* invocation threw without a delay
C28_Witness ==
    /\ options.maxRetries = 0
    /\ pc = "thrown"
    /\ AllFailedTransiently
    /\ execCount = 1
    /\ delays = <<>>

\* C29: when every operation() call and every delay comes to an end, the
\* invocation eventually is over, and it is over only with a returned result
\* or with a thrown error.
C29_InvocationTerminates ==
    /\ <>Finished
    /\ [](/\ pc = "returned" => outcome.kind = "returned"
          /\ pc = "thrown" => (outcome.kind = "thrown" /\ outcome.error # NoError)
          /\ outcome.kind # "none" => Finished)

\* the longest sequence of the default policy is over: four attempts, three
\* delays, the last error thrown
C29_Witness ==
    /\ retryOptions = <<>>
    /\ pc = "thrown"
    /\ execCount = 4
    /\ Len(delays) = 3
    /\ outcome.kind = "thrown"

\* C36: as long as clearInvoices has not been called, the id a createInvoice
\* returns was not stored before the call and getInvoiceCount is one more
\* than before it.
C36_CreateNeverOverwrites ==
    (mockLast.op = "createInvoice" /\ mockLast.clears = 0) =>
        /\ heap[mockLast.result].id \notin DOMAIN mockLast.before
        /\ getInvoiceCount(invoices) = getInvoiceCount(mockLast.before) + 1

\* at most one stored invoice has a given uuid
OneInvoicePerUuid ==
    \A i, j \in DOMAIN invoices :
        heap[invoices[i]].uuid = heap[invoices[j]].uuid => i = j

\* the cache of an API call holds an entry exactly when a cached variant has
\* stored one: what the client method returned, under the variant's key, its
\* lifetime counted from an instant not after now
ApiCacheHoldsTheResult ==
    /\ cache # <<>> <=> cachedPc \in {"stored", "returned"}
    /\ cache # <<>> =>
        /\ apiMethod \in CachedMethods
        /\ outcome.kind = "returned"
        /\ DOMAIN cache = {CacheKey(apiMethod)}
        /\ cache[CacheKey(apiMethod)].value = outcome.result
        /\ \E t \in CachedTimes(apiMethod) :
               /\ t <= now
               /\ cache[CacheKey(apiMethod)].expires = t + CacheTtl(apiMethod)
    /\ cachedPc = "thrown" => pc = "thrown"
    /\ cachedPc = "none" <=> apiMethod \notin CachedMethods

\* withRetry has returned and the variant has not yet stored the value
ApiReturnedNotStored ==
    /\ pc = "returned"
    /\ cachedPc = "calling"
    /\ cache = <<>>
    /\ now > 0

\* the entry is stored, at an instant after the call began, and the variant
\* has not yet returned
ApiStoredNotReturned ==
    /\ cachedPc = "stored"
    /\ CacheKey(apiMethod) \in DOMAIN cache
    /\ cache[CacheKey(apiMethod)].expires > CacheTtl(apiMethod)

\* a cached variant has stored what it returned
ApiCacheFilled ==
    /\ cachedPc = "returned"
    /\ outcome.kind = "returned"
    /\ CacheKey(apiMethod) \in DOMAIN cache

\* the error of the client method has left the cached variant
ApiCachedThrown ==
    /\ cachedPc = "thrown"
    /\ outcome.kind = "thrown"
    /\ cache = <<>>

\* the logger's read of data.id has failed on every attempt
ApiBodyMissingThrown ==
    /\ apiMethod = "createInvoice"
    /\ pc = "thrown"
    /\ lastError.cls = "Error"
    /\ Len(requests) = execCount
    /\ execCount > 1

\* a processWebhook call has called a handler and has resolved, for a webhook
\* whose signature was never verified
UnverifiedWebhookProcessed ==
    /\ whRun.pc = "resolved"
    /\ Len(handlerCalls) > 0
    /\ sigPc # "verified"

====
